---- MODULE Spec2Model ----
(***************************************************************************)
(* typemockr: the recursion analyzer (analyzer.ts), the inheritance        *)
(* resolver and reachability cache (typemockr.ts), the generator inference *)
(* engine (generator/faker-infer.ts) and the code emission engine          *)
(* (generation.ts), modelled as state machines over bounded inputs.        *)
(*                                                                         *)
(* AST nodes are records with the same fields for every variant:           *)
(*   type          the variant tag ("reference", "array", ...)             *)
(*   ref           the string payload: reference target, primitive kind,   *)
(*                 constant text; "" when the variant has none             *)
(*   ctype         typeof value of a constant ("string", "number", ...)    *)
(*   value         the nested nodes, in source order (conditional:         *)
(*                 <<checkType, extendsType, trueType, falseType>>)        *)
(*   name          the property name; "" on a node that is no property     *)
(*   optional      the property's optional flag                            *)
(*   recursiveEdge TRUE iff the JS object carries recursiveEdge: true      *)
(* A JS field that is absent/undefined is the field's default here         *)
(* (FALSE, "", <<>>).                                                      *)
(***************************************************************************)
EXTENDS Integers, Sequences, FiniteSets, TLC

Range(s) == {s[i] : i \in 1..Len(s)}

\* Set.add / Map.set on an insertion-ordered collection: a member keeps its place.
AddTo(s, x) == IF x \in Range(s) THEN s ELSE Append(s, x)

RECURSIVE AddAll(_, _)
AddAll(s, xs) == IF xs = <<>> THEN s ELSE AddAll(AddTo(s, Head(xs)), Tail(xs))

RECURSIVE Flatten(_)
Flatten(ss) == IF ss = <<>> THEN <<>> ELSE Head(ss) \o Flatten(Tail(ss))

----------------------------------------------------------------------------
(* AST constructors (ast-types.ts) *)

Node(t, r, v) ==
  [type |-> t, ref |-> r, ctype |-> "", value |-> v, name |-> "",
   optional |-> FALSE, recursiveEdge |-> FALSE]

Ref(t) == Node("reference", t, <<>>)
Prim(k) == Node("primitive", k, <<>>)
\* a string-literal constant, and a number or boolean one (typeof value)
Const(c) == [Node("constant", c, <<>>) EXCEPT !.ctype = "string"]
ConstNum(c) == [Node("constant", c, <<>>) EXCEPT !.ctype = "number"]
Arr(v) == Node("array", "", <<v>>)
Union(vs) == Node("union", "", vs)
Inter(vs) == Node("intersection", "", vs)
Obj(ps) == Node("object", "", ps)
Func(v) == Node("function", "", <<v>>)

\* ASTProperty = ASTPropertyValue & { name, optional }
Prop(n, o, v) == [v EXCEPT !.name = n, !.optional = o]

Entity(n, k) ==
  [name |-> n, type |-> k, properties |-> <<>>, values |-> <<>>,
   value |-> Node("primitive", "unknown", <<>>), entities |-> <<>>,
   inherits |-> <<>>, generics |-> <<>>, hasRecursion |-> FALSE,
   cycleGroup |-> {}, file |-> ""]

\* file is location.file of the entity or of the base entry; "" when the
\* location is absent
Base(e) == [expr |-> e, properties |-> <<>>, file |-> ""]

----------------------------------------------------------------------------
(* analyzer.ts *)

\* The type expressions of the model and the name the two regular expressions of
\* extractTypeNameFromImportish give for each: import("...").Name and a.b.Name
\* give Name, a plain identifier gives itself.
ImportOfB == "import(\"./b\").B"

extractTypeNameFromImportish(expr) ==
  IF expr = ImportOfB THEN "B" ELSE expr

\* collectRefsFromProp(prop, acc): acc with the reference targets of prop added.
RECURSIVE collectRefsFromProp(_, _)
RECURSIVE collectRefsFromList(_, _)
collectRefsFromList(vs, acc) ==
  IF vs = <<>> THEN acc
  ELSE collectRefsFromList(Tail(vs), collectRefsFromProp(Head(vs), acc))

collectRefsFromProp(prop, acc) ==
  CASE prop.type = "reference" ->
         IF prop.ref # "" /\ prop.ref # "__type"
         THEN AddTo(acc, extractTypeNameFromImportish(prop.ref))
         ELSE acc
    [] prop.type \in {"union", "intersection", "array", "tuple", "record",
                      "promise", "object"} ->
         collectRefsFromList(prop.value, acc)
    [] prop.type \in {"typeOperator", "mapped"} ->
         collectRefsFromProp(prop.value[1], acc)
    [] prop.type = "conditional" ->
         \* value ?? trueType ?? ...: a conditional has no value field and its
         \* trueType is a node, so trueType alone is walked
         collectRefsFromProp(prop.value[3], acc)
    [] OTHER -> acc

\* The adjacency map: keys in insertion order and, per key, the Set of targets in
\* insertion order.
EmptyAdj == [keys |-> <<>>, out |-> <<>>]

AdjGet(adj, n) ==
  IF \E i \in 1..Len(adj.keys) : adj.keys[i] = n
  THEN adj.out[CHOOSE i \in 1..Len(adj.keys) : adj.keys[i] = n]
  ELSE <<>>

AdjHas(adj, n) == n \in Range(adj.keys)

AdjEnsure(adj, n) ==
  IF AdjHas(adj, n) THEN adj
  ELSE [keys |-> Append(adj.keys, n), out |-> Append(adj.out, <<>>)]

AdjSet(adj, n, outs) ==
  LET a == AdjEnsure(adj, n)
      i == CHOOSE j \in 1..Len(a.keys) : a.keys[j] = n
  IN [a EXCEPT !.out[i] = outs]

addEdge(adj, from, to) == AdjSet(adj, from, AddTo(AdjGet(adj, from), to))

EntityRefs(e) ==
  CASE e.type = "instance" ->
         AddAll(collectRefsFromList(e.properties, <<>>),
                [i \in 1..Len(e.inherits) |->
                   extractTypeNameFromImportish(e.inherits[i].expr)])
    [] e.type = "union" -> collectRefsFromList(e.values, <<>>)
    [] e.type = "alias" ->
         [i \in 1..Len(e.entities) |-> extractTypeNameFromImportish(e.entities[i])]
    [] e.type = "array" -> collectRefsFromProp(e.value, <<>>)
    [] OTHER -> <<>>

RECURSIVE buildAdjacencyFrom(_, _)
buildAdjacencyFrom(entities, adj) ==
  IF entities = <<>> THEN adj
  ELSE LET e == Head(entities)
           a == AdjEnsure(adj, e.name)
       IN buildAdjacencyFrom(Tail(entities),
            AdjSet(a, e.name, AddAll(AdjGet(a, e.name), EntityRefs(e))))

buildAdjacency(entities) == buildAdjacencyFrom(entities, EmptyAdj)

\* computeSCC: Tarjan's algorithm.  st is the closure state of computeSCC:
\* index, indices, lowlink, onStack, stack, sccs.
Min(a, b) == IF a < b THEN a ELSE b

SccInit ==
  [index |-> 0, indices |-> <<>>, lowlink |-> <<>>, onStack |-> {},
   stack |-> <<>>, sccs |-> <<>>]

\* The do-while of strongconnect: pop until v is popped; comp in pop order.
RECURSIVE popComponent(_, _, _)
popComponent(v, st, comp) ==
  IF st.stack = <<>> THEN [st EXCEPT !.sccs = Append(@, comp)]
  ELSE LET w == st.stack[Len(st.stack)]
           st1 == [st EXCEPT !.stack = SubSeq(@, 1, Len(@) - 1),
                             !.onStack = @ \ {w}]
           comp1 == Append(comp, w)
       IN IF w # v THEN popComponent(v, st1, comp1)
          ELSE [st1 EXCEPT !.sccs = Append(@, comp1)]

RECURSIVE strongconnect(_, _, _)
RECURSIVE strongconnectLoop(_, _, _, _)
strongconnectLoop(adj, v, ws, st) ==
  IF ws = <<>> THEN st
  ELSE LET w == Head(ws)
           st1 == IF w \notin DOMAIN st.indices
                  THEN LET s2 == strongconnect(adj, w, st)
                       IN [s2 EXCEPT !.lowlink[v] = Min(@, s2.lowlink[w])]
                  ELSE IF w \in st.onStack
                  THEN [st EXCEPT !.lowlink[v] = Min(@, st.indices[w])]
                  ELSE st
       IN strongconnectLoop(adj, v, Tail(ws), st1)

strongconnect(adj, v, st) ==
  LET st1 == [st EXCEPT !.indices = (v :> st.index) @@ @,
                        !.lowlink = (v :> st.index) @@ @,
                        !.index = @ + 1,
                        !.stack = Append(@, v),
                        !.onStack = @ \cup {v}]
      st2 == strongconnectLoop(adj, v, AdjGet(adj, v), st1)
  IN IF st2.lowlink[v] = st2.indices[v] THEN popComponent(v, st2, <<>>) ELSE st2

RECURSIVE computeSCCFrom(_, _, _)
computeSCCFrom(adj, vs, st) ==
  IF vs = <<>> THEN st
  ELSE computeSCCFrom(adj, Tail(vs),
         IF Head(vs) \notin DOMAIN st.indices
         THEN strongconnect(adj, Head(vs), st) ELSE st)

computeSCC(adj) == computeSCCFrom(adj, adj.keys, SccInit).sccs

----------------------------------------------------------------------------
(* typemockr.ts, generateMocks: nodeToScc and the reachability cache *)

\* nodeToScc.get(n): the Set of n's component; {} is an absent entry.
nodeToScc(sccs, n) ==
  IF \E i \in 1..Len(sccs) : n \in Range(sccs[i])
  THEN Range(sccs[CHOOSE i \in 1..Len(sccs) : n \in Range(sccs[i])])
  ELSE {}

RECURSIVE dfs(_, _, _)
RECURSIVE dfsList(_, _, _)
dfsList(adj, ms, visited) ==
  IF ms = <<>> THEN visited
  ELSE dfsList(adj, Tail(ms), dfs(adj, Head(ms), visited))

dfs(adj, n, visited) ==
  IF n \in visited THEN visited
  ELSE dfsList(adj, AdjGet(adj, n), visited \cup {n})

\* reachableFrom(node).  reachMemo returns the Set computed by the first call for
\* the node; nothing writes to a returned Set, so the value is that of the
\* computation.
reachableFrom(adj, node) ==
  LET visited == dfs(adj, node, {})
      hasSelf == node \in Range(AdjGet(adj, node))
  IN IF hasSelf THEN visited ELSE visited \ {node}

----------------------------------------------------------------------------
(* analyzer.ts, annotateEntityWithRecursion *)

\* inRecursion by the size of the component alone
inRecursionBySize(name, adj, sccs) == Cardinality(nodeToScc(sccs, name)) > 1

\* inRecursion with the size test off by one: any component counts
inRecursionAnyComponent(name, adj, sccs) ==
  Cardinality(nodeToScc(sccs, name)) >= 1 \/ name \in Range(AdjGet(adj, name))

inRecursionOf(name, adj, sccs) ==
  Cardinality(nodeToScc(sccs, name)) > 1 \/ name \in Range(AdjGet(adj, name))

\* scc.size ? scc : new Set([entity.name])
targetSetOf(name, sccs) ==
  IF nodeToScc(sccs, name) # {} THEN nodeToScc(sccs, name) ELSE {name}

canLeadToRecursionFrom(owner, adj, sccs, typeName) ==
  IF ~inRecursionOf(owner, adj, sccs) THEN FALSE
  ELSE \/ typeName \in targetSetOf(owner, sccs)
       \/ reachableFrom(adj, typeName) \cap targetSetOf(owner, sccs) # {}

\* annotatePropValue / annotateProperty return [node, leads].
RECURSIVE annotatePropValue(_, _, _, _)
RECURSIVE annotateProperty(_, _, _, _)
RECURSIVE annotateValues(_, _, _, _)
RECURSIVE annotateProperties(_, _, _, _)

\* value.map(x => annotatePropValue(x)) with anyLead accumulated
annotateValues(owner, adj, sccs, vs) ==
  IF vs = <<>> THEN [nodes |-> <<>>, leads |-> FALSE]
  ELSE LET h == annotatePropValue(owner, adj, sccs, Head(vs))
           t == annotateValues(owner, adj, sccs, Tail(vs))
       IN [nodes |-> <<h.node>> \o t.nodes, leads |-> h.leads \/ t.leads]

annotateProperties(owner, adj, sccs, ps) ==
  IF ps = <<>> THEN [nodes |-> <<>>, leads |-> FALSE]
  ELSE LET h == annotateProperty(owner, adj, sccs, Head(ps))
           t == annotateProperties(owner, adj, sccs, Tail(ps))
       IN [nodes |-> <<h.node>> \o t.nodes, leads |-> h.leads \/ t.leads]

annotatePropValue(owner, adj, sccs, v) ==
  CASE v.type = "reference" ->
         LET leads == canLeadToRecursionFrom(owner, adj, sccs,
                        extractTypeNameFromImportish(v.ref))
         IN [node |-> IF leads THEN [v EXCEPT !.recursiveEdge = TRUE] ELSE v,
             leads |-> leads]
    [] v.type = "array" ->
         LET r == annotatePropValue(owner, adj, sccs, v.value[1])
         IN [node |-> [v EXCEPT !.value = <<r.node>>], leads |-> r.leads]
    [] v.type \in {"tuple", "union", "intersection", "record", "promise"} ->
         LET r == annotateValues(owner, adj, sccs, v.value)
         IN [node |-> [v EXCEPT !.value = r.nodes], leads |-> r.leads]
    [] v.type = "object" ->
         LET r == annotateProperties(owner, adj, sccs, v.value)
         IN [node |-> [v EXCEPT !.value = r.nodes], leads |-> r.leads]
    [] v.type \in {"typeOperator", "mapped"} ->
         LET r == annotatePropValue(owner, adj, sccs, v.value[1])
         IN [node |-> [v EXCEPT !.value = <<r.node>>], leads |-> r.leads]
    [] v.type = "conditional" ->
         LET r == annotateValues(owner, adj, sccs, v.value)
         IN [node |-> [v EXCEPT !.value = r.nodes], leads |-> r.leads]
    [] OTHER -> [node |-> v, leads |-> FALSE]

annotateProperty(owner, adj, sccs, p) ==
  LET r == annotatePropValue(owner, adj, sccs, p)
      np == [r.node EXCEPT !.name = p.name, !.optional = p.optional]
  IN [node |-> IF r.leads THEN [np EXCEPT !.recursiveEdge = TRUE] ELSE np,
      leads |-> r.leads]

annotateEntityWithRecursion(entity, adj, sccs) ==
  LET inRecursion == inRecursionOf(entity.name, adj, sccs)
      out == [entity EXCEPT
                !.hasRecursion = inRecursion,
                !.cycleGroup = IF inRecursion
                               THEN targetSetOf(entity.name, sccs) ELSE {}]
  IN CASE entity.type = "instance" ->
            [out EXCEPT !.properties =
               annotateProperties(entity.name, adj, sccs, entity.properties).nodes]
       [] entity.type = "union" ->
            [out EXCEPT !.values =
               annotateValues(entity.name, adj, sccs, entity.values).nodes]
       [] entity.type = "array" ->
            [out EXCEPT !.value =
               annotatePropValue(entity.name, adj, sccs, entity.value).node]
       [] OTHER -> out

\* the entity passed in, had the flags been written to it and not to a copy
entityAnnotatedInPlace(entity, adj, sccs) ==
  annotateEntityWithRecursion(entity, adj, sccs)

\* The entity passed to annotateEntityWithRecursion, after the call.  Every
\* write of the function goes to an object it has built by spreading: out is
\* { ...entity }, np is { ...nv, name, optional, docs, location }, and each
\* rebuilt value node is { ...v, value: ... }; an object of the input is read,
\* or returned as it is, never assigned to.
entityAfterAnnotate(entity, adj, sccs) == entity

----------------------------------------------------------------------------
(* generator/faker-infer.ts *)
(* A dotted path and a wildcard pattern are sequences of one-character     *)
(* strings; a generator expression is a string.                            *)

\* JS undefined and null where a string is expected.
Undefined == "<undefined>"
Null == "<null>"

Uppers == <<"A","B","C","D","E","F","G","H","I","J","K","L","M",
            "N","O","P","Q","R","S","T","U","V","W","X","Y","Z">>
Lowers == <<"a","b","c","d","e","f","g","h","i","j","k","l","m",
            "n","o","p","q","r","s","t","u","v","w","x","y","z">>

\* the "i" flag of the RegExp
Fold(c) ==
  IF \E i \in 1..Len(Uppers) : Uppers[i] = c
  THEN Lowers[CHOOSE i \in 1..Len(Uppers) : Uppers[i] = c]
  ELSE c

\* generateRegexp(text): "." becomes the literal \. and "*" becomes .*? ; no
\* other character is escaped, so a letter stands for itself and "$", which
\* may occur in a property name, is the end-of-input assertion of the RegExp.
\* The result is anchored (^...$).
generateRegexp(text) ==
  [i \in 1..Len(text) |->
     IF text[i] = "*" THEN [t |-> "any", c |-> ""]
     ELSE IF text[i] = "$" THEN [t |-> "end", c |-> ""]
     ELSE [t |-> "lit", c |-> text[i]]]

\* re.test(path) for an anchored, case-insensitive expression
RECURSIVE regexpTest(_, _)
regexpTest(re, path) ==
  IF re = <<>> THEN path = <<>>
  ELSE IF Head(re).t = "any"
  THEN \E k \in 0..Len(path) :
         regexpTest(Tail(re), SubSeq(path, k + 1, Len(path)))
  ELSE IF Head(re).t = "end"
  THEN path = <<>> /\ regexpTest(Tail(re), path)
  ELSE /\ path # <<>>
       /\ Fold(Head(path)) = Fold(Head(re).c)
       /\ regexpTest(Tail(re), Tail(path))

\* defineGeneratorMatchers(mapping): mapping is the list of the object's entries
\* [generator, patterns] in insertion order; the matchers are the pairs
\* [re, generator] in that order.
defineGeneratorMatchers(mapping) ==
  Flatten([i \in 1..Len(mapping) |->
             [j \in 1..Len(mapping[i].patterns) |->
                [re |-> generateRegexp(mapping[i].patterns[j]),
                 generator |-> mapping[i].generator]]])

\* inferGenerator(path): matchers.filter(([re]) => re.test(path)).at(0)?.[1]
inferGenerator(matchers, path) ==
  IF \E i \in 1..Len(matchers) : regexpTest(matchers[i].re, path)
  THEN matchers[CHOOSE i \in 1..Len(matchers) :
                  /\ regexpTest(matchers[i].re, path)
                  /\ \A j \in 1..(i - 1) : ~regexpTest(matchers[j].re, path)
                ].generator
  ELSE Undefined

\* The new-style branch of setMappings: entries [pattern, generator] grouped
\* into normalized[generator] = patterns, a group keeping the place of its
\* generator's first entry.
RECURSIVE normalizeFrom(_, _)
normalizeFrom(entries, normalized) ==
  IF entries = <<>> THEN normalized
  ELSE LET e == Head(entries)
           has == \E i \in 1..Len(normalized) :
                    normalized[i].generator = e.generator
           n1 == IF has
                 THEN [i \in 1..Len(normalized) |->
                         IF normalized[i].generator = e.generator
                         THEN [normalized[i] EXCEPT
                                 !.patterns = Append(@, e.pattern)]
                         ELSE normalized[i]]
                 ELSE Append(normalized,
                        [generator |-> e.generator, patterns |-> <<e.pattern>>])
       IN normalizeFrom(Tail(entries), n1)

\* setMappings(mappings): the matchers installed.  mappings is
\* [shape |-> "none"] (undefined or {}), [shape |-> "new", entries |-> ...]
\* (pattern -> generator) or [shape |-> "legacy", entries |-> ...]
\* (generator -> patterns); the shape is what typeof firstVal decides.
setMappings(mappings) ==
  CASE mappings.shape = "none" -> defineGeneratorMatchers(<<>>)
    [] mappings.shape = "new" ->
         defineGeneratorMatchers(normalizeFrom(mappings.entries, <<>>))
    [] OTHER -> defineGeneratorMatchers(mappings.entries)

\* /string\.|uuid\(|alphanumeric\(/i.test(expr), for the expressions of the model
StringShapedExprs ==
  {"faker.string.uuid()", "faker.string.alphanumeric(8)", "faker.string.alpha()"}

looksLikeString(expr) == expr \in StringShapedExprs

\* The switch of getFakerGenerator
defaultGenerator(type) ==
  CASE type \in {"any", "string"} -> "faker.lorem.words()"
    [] type = "unknown" -> "{}"
    [] type = "number" -> "faker.number.int(10000)"
    [] type = "boolean" -> "faker.datatype.boolean()"
    [] type = "null" -> "null"
    [] type = "date" -> "faker.date.recent()"
    [] type = "object" -> "{}"
    [] OTHER -> "faker.lorem.words()"

\* staticGenerator correcting the kind family of a number only
staticGeneratorNumberOnly(matchers, type, path) ==
  LET nameBased == inferGenerator(matchers, path)
  IN IF nameBased # Undefined /\ nameBased # ""
     THEN IF type = "number" /\ looksLikeString(nameBased)
          THEN "faker.number.int(10000)"
          ELSE nameBased
     ELSE defaultGenerator(type)

\* The part of getFakerGenerator after the provider: pattern table, kind-family
\* correction, defaults.  "" is falsy, as undefined is.
staticGenerator(matchers, type, path) ==
  LET nameBased == inferGenerator(matchers, path)
  IN IF nameBased # Undefined /\ nameBased # ""
     THEN IF type = "number" /\ looksLikeString(nameBased)
          THEN "faker.number.int(10000)"
          ELSE IF type = "date" /\ looksLikeString(nameBased)
          THEN "faker.date.recent()"
          ELSE IF type = "boolean" /\ looksLikeString(nameBased)
          THEN "faker.datatype.boolean()"
          ELSE nameBased
     ELSE defaultGenerator(type)

\* A mapping provider is [set |-> BOOLEAN, fn |-> f]: f[<<type, path>>] is
\* what the function does for that call: it returns an expression, Null or
\* Undefined, or raises (Throws).  Outside its domain it returns Undefined.
Throws == "<throws>"
NoProvider == [set |-> FALSE, fn |-> <<>>]

providerAnswer(prov, type, path) ==
  IF <<type, path>> \in DOMAIN prov.fn THEN prov.fn[<<type, path>>]
  ELSE Undefined

\* getFakerGenerator without the try/catch around the provider call
getFakerGeneratorUncaught(matchers, prov, type, path) ==
  IF prov.set /\ providerAnswer(prov, type, path) \notin {Undefined, Null}
  THEN providerAnswer(prov, type, path)
  ELSE staticGenerator(matchers, type, path)

\* getFakerGenerator taking the provider's answer only when it is truthy
getFakerGeneratorTruthy(matchers, prov, type, path) ==
  IF prov.set
       /\ providerAnswer(prov, type, path) \notin {Undefined, Null, Throws, ""}
  THEN providerAnswer(prov, type, path)
  ELSE staticGenerator(matchers, type, path)

getFakerGenerator(matchers, prov, type, path) ==
  IF prov.set /\ providerAnswer(prov, type, path) \notin {Undefined, Null, Throws}
  THEN providerAnswer(prov, type, path)
  ELSE staticGenerator(matchers, type, path)

\* inferMapping(path): inferGenerator(path) || null
inferMapping(matchers, path) ==
  IF inferGenerator(matchers, path) \in {Undefined, ""} THEN Null
  ELSE inferGenerator(matchers, path)

----------------------------------------------------------------------------
(* generation.ts: emitted expressions *)
(* The emitted text is kept as a tree: k is the construct, text its own    *)
(* text, args the nested expressions.  Render gives the text generate()    *)
(* writes for it.                                                          *)
(*   lit          text                                                     *)
(*   emptyObject  text, which starts with "{": {} and {} as T              *)
(*   call         Mock<text>(args) ; opts: the second argument             *)
(*                { depth: depth + 1, maxDepth } is passed                 *)
(*   gcall        mock<text>()                                             *)
(*   multiple     faker.helpers.multiple(() => arg)                        *)
(*   cond         depth >= maxDepth ? <text> : arg                         *)
(*   arrayElement faker.helpers.arrayElement([args])                       *)
(*   maybe        faker.helpers.maybe(() => arg)                           *)
(*   paren        (arg)                                                    *)
(*   object       { fields }            field   "text": arg                *)
(*   merge        { members } of an intersection                           *)
(*   spread       ...arg                inner   arg without its braces     *)
(*   as           arg as <text>                                            *)
(*   body         the expressions a factory evaluates, in order            *)
(*   undefined    the JS value undefined (no text)                         *)
(*   throw        the evaluation raised a TypeError                        *)
(* edge is TRUE on a call emitted by a branch taken for a node flagged     *)
(* recursiveEdge in an entity with hasRecursion.                           *)

X(k, t, a) == [k |-> k, text |-> t, opts |-> FALSE, edge |-> FALSE, args |-> a]

ThrowX == X("throw", "", <<>>)
UndefinedX == X("undefined", "", <<>>)

\* a construct over sub-expressions; an exception raised below propagates
Mk(k, t, a) ==
  IF \E i \in 1..Len(a) : a[i].k = "throw" THEN ThrowX ELSE X(k, t, a)

Lit(t) == IF t = "{}" THEN X("emptyObject", t, <<>>) ELSE X("lit", t, <<>>)

Call(target, opts, edge) ==
  [k |-> "call", text |-> target, opts |-> opts, edge |-> edge, args |-> <<>>]

\* value.trim().startsWith("{")
startsWithBrace(x) == x.k \in {"object", "merge", "emptyObject"}

\* wrapped = value.trim().startsWith("{") ? `(${value})` : value ; trim() of
\* undefined raises
wrap(x) ==
  CASE x.k = "throw" -> ThrowX
    [] x.k = "undefined" -> ThrowX
    [] startsWithBrace(x) -> X("paren", "", <<x>>)
    [] OTHER -> x

RECURSIVE JoinText(_, _)
JoinText(ts, sep) ==
  IF ts = <<>> THEN ""
  ELSE IF Len(ts) = 1 THEN ts[1]
  ELSE ts[1] \o sep \o JoinText(Tail(ts), sep)

OptionsText == "({}, { depth: depth + 1, maxDepth })"

RECURSIVE Render(_)
Render(x) ==
  LET parts == [i \in 1..Len(x.args) |-> Render(x.args[i])]
  IN CASE x.k \in {"lit", "emptyObject"} -> x.text
       [] x.k = "call" ->
            IF x.opts THEN "Mock" \o x.text \o OptionsText
            ELSE "Mock" \o x.text \o "(" \o JoinText(parts, ", ") \o ")"
       [] x.k = "gcall" -> "mock" \o x.text \o "()"
       [] x.k = "multiple" -> "faker.helpers.multiple(() => " \o parts[1] \o ")"
       [] x.k = "cond" -> "depth >= maxDepth ? " \o x.text \o " : " \o parts[1]
       [] x.k = "arrayElement" ->
            "faker.helpers.arrayElement([" \o JoinText(parts, ", ") \o "])"
       [] x.k = "maybe" -> "faker.helpers.maybe(() => " \o parts[1] \o ")"
       [] x.k = "paren" -> "(" \o parts[1] \o ")"
       [] x.k = "object" -> "{ " \o JoinText(parts, ", ") \o " }"
       [] x.k = "merge" -> "{ " \o JoinText(parts, ", ") \o " }"
       [] x.k = "field" ->
            "\"" \o x.text \o "\": "
              \o (IF x.args[1].k = "undefined" THEN "undefined" ELSE parts[1])
       [] x.k = "spread" -> "..." \o parts[1]
       [] x.k = "as" -> parts[1] \o " as " \o x.text
       [] x.k = "inner" -> JoinText([i \in 1..Len(x.args[1].args) |->
                                       Render(x.args[1].args[i])], ", ")
       [] OTHER -> ""

\* path.split("."): the segments of a path of characters, as strings
RECURSIVE splitFrom(_, _, _)
splitFrom(path, cur, acc) ==
  IF path = <<>> THEN Append(acc, cur)
  ELSE IF Head(path) = "." THEN splitFrom(Tail(path), "", Append(acc, cur))
  ELSE splitFrom(Tail(path), cur \o Head(path), acc)

split(path) == splitFrom(path, "", <<>>)

\* the characters of a name; the names of the model are one character long
chars(name) == <<name>>

\* `${path}.${name}`
dotted(path, name) == path \o <<".">> \o chars(name)

\* propPath.map((key) => `["${key}"]`).join("")
accessKeys(propPath) ==
  JoinText([i \in 1..Len(propPath) |-> "[\"" \o propPath[i] \o "\"]"], "")

\* `${entity}${accessKeys}` when entity && propPath.length, else ""
typeOfPath(path) ==
  LET segs == split(path)
  IN IF segs[1] # "" /\ Len(segs) > 1
     THEN segs[1] \o accessKeys(Tail(segs)) ELSE ""

\* refVal.match(/\.([A-Za-z0-9_]+)$/)?.[1] ?? refVal
refTypeName(refVal) == IF refVal = ImportOfB THEN "B" ELSE refVal

----------------------------------------------------------------------------
(* generation.ts: value synthesis *)
(* ctx is the GenerationContext (entityName, entityHasRecursion,           *)
(* genericParamSet, typesWithOptions) together with the module state of    *)
(* faker-infer.ts that getFakerGenerator reads (matchers, provider).       *)

RECURSIVE generateValue(_, _, _, _)
RECURSIVE generateArrayValue(_, _, _, _)
RECURSIVE generateUnionValue(_, _, _, _)
RECURSIVE generateIntersectionValue(_, _, _, _)
RECURSIVE generateObjectValue(_, _, _, _)
RECURSIVE generateProperty(_, _, _, _)

generatePrimitive(prop, path, includeTypes, ctx) ==
  Lit(getFakerGenerator(ctx.matchers, ctx.provider, prop.ref, path))

\* typeof prop.value === "string" ? `"${prop.value}"` : prop.value.toString()
constantText(prop) ==
  CASE prop.type \in {"reference", "primitive"} -> "\"" \o prop.ref \o "\""
    [] prop.type = "constant" ->
         IF prop.ctype = "string" THEN "\"" \o prop.ref \o "\"" ELSE prop.ref
    [] OTHER ->
         JoinText([i \in 1..Len(prop.value) |-> "[object Object]"], ",")

generateConstantValue(prop, path, includeTypes, isUnionOrEnum) ==
  IF prop.type = "enum" THEN ThrowX   \* prop.value is undefined
  ELSE IF includeTypes /\ isUnionOrEnum /\ typeOfPath(path) # ""
  THEN Lit(constantText(prop) \o " as " \o typeOfPath(path))
  ELSE IF includeTypes THEN Lit(constantText(prop) \o " as const")
  ELSE Lit(constantText(prop))

\* passOpts of the recursive branches
passOpts(typeName, ctx) ==
  (typeName # "" /\ typeName \in ctx.typesWithOptions)
    \/ typeName = ctx.entityName

\* generateArrayValue without the depth guard of the recursive branch
generateArrayValueUnguarded(prop, path, includeTypes, ctx) ==
  IF prop.value = <<>> THEN Lit("[]")
  ELSE LET type == prop.value[1]
           typeName == refTypeName(type.ref)
       IN IF type.type = "reference"
          THEN IF typeName = "__type" THEN Lit("[]")
               ELSE IF type.recursiveEdge /\ ctx.entityHasRecursion
               THEN Mk("multiple", "",
                       <<Call(typeName, passOpts(typeName, ctx), TRUE)>>)
               ELSE IF typeName # "" /\ typeName \in ctx.genericParamSet
               THEN Mk("multiple", "", <<X("gcall", typeName, <<>>)>>)
               ELSE Mk("multiple", "", <<Call(typeName, FALSE, FALSE)>>)
          ELSE Mk("multiple", "",
                  <<wrap(generateValue(type, path, includeTypes, ctx))>>)

generateArrayValue(prop, path, includeTypes, ctx) ==
  IF prop.value = <<>> THEN Lit("[]")
  ELSE LET type == prop.value[1]
           typeName == refTypeName(type.ref)
           segs == split(path)
       IN IF type.type = "reference"
          THEN IF typeName = "__type"
               THEN IF includeTypes
                    THEN Lit("[] as " \o segs[1]
                             \o (IF Len(segs) > 1
                                 THEN "[\"" \o JoinText(Tail(segs), "\"][\"")
                                        \o "\"]"
                                 ELSE ""))
                    ELSE Lit("[]")
               ELSE IF type.recursiveEdge /\ ctx.entityHasRecursion
               THEN Mk("cond",
                       IF includeTypes THEN "([] as " \o typeName \o "[])"
                       ELSE "[]",
                       <<Mk("multiple", "",
                            <<Call(typeName, passOpts(typeName, ctx), TRUE)>>)>>)
               ELSE IF typeName # "" /\ typeName \in ctx.genericParamSet
               THEN Mk("multiple", "", <<X("gcall", typeName, <<>>)>>)
               ELSE Mk("multiple", "", <<Call(typeName, FALSE, FALSE)>>)
          ELSE Mk("multiple", "",
                  <<wrap(generateValue(type, path, includeTypes, ctx))>>)

generateRecordValue(prop, path, includeTypes) ==
  IF includeTypes /\ typeOfPath(path) # ""
  THEN X("emptyObject", "{} as " \o typeOfPath(path), <<>>)
  ELSE Lit("{}")

generateReferenceValue(prop, ctx) ==
  LET typeName == refTypeName(prop.ref)
  IN IF typeName = "__type" THEN Lit("{}")
     ELSE IF typeName \in ctx.genericParamSet THEN X("gcall", typeName, <<>>)
     ELSE IF prop.recursiveEdge /\ ctx.entityHasRecursion
     THEN Call(typeName, passOpts(typeName, ctx), TRUE)
     ELSE Call(typeName, FALSE, FALSE)

generateUnionValue(prop, path, includeTypes, ctx) ==
  LET n == Len(prop.value)
      allReferences == \A i \in 1..n : prop.value[i].type = "reference"
      allStringLiterals ==
        \A i \in 1..n : prop.value[i].type = "constant"
                          /\ prop.value[i].ctype = "string"
      segs == split(path)
      keys == IF Len(segs) > 1
              THEN "[\"" \o JoinText(Tail(segs), "\"][\"") \o "\"]" ELSE ""
  IN IF n = 0 THEN Lit("undefined")
     ELSE IF allReferences
     THEN Mk("arrayElement", "",
             [i \in 1..n |->
                LET typeName == refTypeName(prop.value[i].ref)
                IN IF prop.value[i].recursiveEdge /\ ctx.entityHasRecursion
                   THEN Call(typeName, passOpts(typeName, ctx), TRUE)
                   ELSE Call(typeName, FALSE, FALSE)])
     ELSE IF allStringLiterals /\ n = 1
     THEN Lit("\"" \o prop.value[1].ref \o "\"")
     ELSE IF allStringLiterals /\ includeTypes
     THEN Mk("arrayElement", "",
             [i \in 1..n |->
                Lit("\"" \o prop.value[i].ref \o "\" as " \o segs[1] \o keys)])
     ELSE Mk("arrayElement", "",
             [i \in 1..n |-> generateValue(prop.value[i], path, includeTypes, ctx)])

generateIntersectionValue(prop, path, includeTypes, ctx) ==
  Mk("merge", "",
     [i \in 1..Len(prop.value) |->
        LET item == prop.value[i]
            value == generateValue(item, path, includeTypes, ctx)
        IN IF item.type = "reference" THEN Mk("spread", "", <<value>>)
           ELSE IF /\ item.type \in {"object", "record"}
                   \* value.at(0) === "{" && value.at(-1) === "}"
                   /\ \/ value.k = "object"
                      \/ (value.k = "emptyObject" /\ value.text = "{}")
           THEN Mk("inner", "", <<value>>)
           ELSE value])

generateObjectValue(prop, path, includeTypes, ctx) ==
  IF Len(prop.value) = 1 /\ prop.value[1].type = "reference"
  THEN LET ref == prop.value[1]
           typeName == refTypeName(ref.ref)
       IN IF ref.recursiveEdge /\ ctx.entityHasRecursion
          THEN Call(typeName, passOpts(typeName, ctx), TRUE)
          ELSE Call(typeName, FALSE, FALSE)
  ELSE Mk("object", "",
          [i \in 1..Len(prop.value) |->
             generateProperty(prop.value[i], path, includeTypes, ctx)])

generateFunctionValue(prop) == UndefinedX

generateValue(prop, path, includeTypes, ctx) ==
  CASE prop.type = "primitive" -> generatePrimitive(prop, path, includeTypes, ctx)
    [] prop.type = "constant" ->
         generateConstantValue(prop, path, includeTypes, FALSE)
    [] prop.type = "reference" -> generateReferenceValue(prop, ctx)
    [] prop.type = "union" -> generateUnionValue(prop, path, includeTypes, ctx)
    [] prop.type = "intersection" ->
         generateIntersectionValue(prop, path, includeTypes, ctx)
    [] prop.type = "record" -> generateRecordValue(prop, path, includeTypes)
    [] prop.type = "array" -> generateArrayValue(prop, path, includeTypes, ctx)
    [] prop.type = "object" -> generateObjectValue(prop, path, includeTypes, ctx)
    [] prop.type = "function" -> generateFunctionValue(prop)
    [] OTHER -> Lit("\"/* TODO " \o prop.type \o " */\"")

\* generateProperty(prop, prop.name, path, includeTypes, context)
generateProperty(prop, path, includeTypes, ctx) ==
  LET full == dotted(path, prop.name)
      v0 == generateValue(prop, full, includeTypes, ctx)
      value == IF includeTypes /\ v0.k = "emptyObject" /\ v0.text = "{}"
                  /\ typeOfPath(full) # ""
               THEN X("emptyObject", "{} as " \o typeOfPath(full), <<>>)
               ELSE v0
  IN IF prop.optional
     THEN Mk("field", prop.name, <<Mk("maybe", "", <<wrap(value)>>)>>)
     ELSE Mk("field", prop.name, <<value>>)

----------------------------------------------------------------------------
(* generation.ts: generate() *)

precedence(kind) ==
  CASE kind = "instance" -> 7
    [] kind = "enum" -> 6
    [] kind = "alias" -> 5
    [] kind = "union" -> 4
    [] kind = "array" -> 3
    [] kind = "primitive" -> 3
    [] kind = "constant" -> 2
    [] kind = "placeholder" -> 1
    [] OTHER -> 0

\* the pre-scan keeping the kind of the last entity of the name
nameToBestKindLast(data, n, name) ==
  LET idx == {i \in 1..n : data[i].name = name}
  IN IF idx = {} THEN Undefined
     ELSE data[CHOOSE i \in idx : \A j \in idx : j <= i].type

\* nameToBestKind.get(name) after the pre-scan of data[1..n]
RECURSIVE nameToBestKind(_, _, _)
nameToBestKind(data, n, name) ==
  IF n = 0 THEN Undefined
  ELSE LET prev == nameToBestKind(data, n - 1, name)
           item == data[n]
       IN IF item.name # name THEN prev
          ELSE IF prev = Undefined THEN item.type
          ELSE IF precedence(item.type) > precedence(prev) THEN item.type
          ELSE prev

typesWithOptionsOf(data) ==
  {data[i].name : i \in {j \in 1..Len(data) : data[j].hasRecursion}}

contextOf(item, data, matchers, prov) ==
  [entityName |-> item.name,
   entityHasRecursion |-> item.hasRecursion,
   genericParamSet |-> Range(item.generics),
   typesWithOptions |-> typesWithOptionsOf(data),
   matchers |-> matchers,
   provider |-> prov]

\* The defaults object composed for one inherited base: the inherited
\* properties for which the child's dotted path has a mapping, restricted to
\* primitive, constant and string-literal-union values.
RECURSIVE defaultsParts(_, _, _)
defaultsParts(item, inhProps, ctx) ==
  IF inhProps = <<>> THEN <<>>
  ELSE LET bp == Head(inhProps)
           dot == dotted(chars(item.name), bp.name)
           rest == defaultsParts(item, Tail(inhProps), ctx)
           allStringLiterals ==
             \A i \in 1..Len(bp.value) :
               bp.value[i].type = "constant" /\ bp.value[i].ctype = "string"
       IN IF inferMapping(ctx.matchers, dot) = Null THEN rest
          ELSE IF bp.type = "primitive"
          THEN <<Mk("field", bp.name, <<generatePrimitive(bp, dot, TRUE, ctx)>>)>>
                 \o rest
          ELSE IF bp.type = "constant"
          THEN <<Mk("field", bp.name,
                    <<generateConstantValue(bp, dot, TRUE, FALSE)>>)>> \o rest
          ELSE IF bp.type = "union" /\ allStringLiterals
          THEN <<Mk("field", bp.name,
                    <<generateUnionValue(bp, dot, TRUE, ctx)>>)>> \o rest
          ELSE rest

\* `...Mock${baseName}(${defaultsObj} as Partial<${baseName}>)`; the base
\* expressions of the model carry no generic arguments
inheritCall(item, base, includeTypes, ctx) ==
  LET baseName == extractTypeNameFromImportish(base.expr)
      parts == defaultsParts(item, base.properties, ctx)
      obj == Mk("object", "", parts)
  IN Mk("spread", "",
        <<[Call(baseName, FALSE, FALSE) EXCEPT !.args =
             IF parts = <<>> THEN <<>>
             ELSE IF includeTypes
             THEN <<Mk("as", "Partial<" \o baseName \o ">", <<obj>>)>>
             ELSE <<obj>>]>>)

\* generateMockValue and the optional wrapper of the instance case
instanceProperty(item, prop, includeTypes, ctx) ==
  LET mockValue ==
        IF prop.type = "reference" /\ prop.ref \in Range(item.generics)
        THEN X("gcall", prop.ref, <<>>)
        ELSE generateValue(prop, dotted(chars(item.name), prop.name),
                           includeTypes, ctx)
  IN IF prop.optional
     THEN Mk("field", prop.name, <<Mk("maybe", "", <<wrap(mockValue)>>)>>)
     ELSE Mk("field", prop.name, <<mockValue>>)

\* One emitted factory: its name, whether its signature declares __options, and
\* the expressions its body evaluates.
Factory(item, options, exprs) ==
  [name |-> item.name, type |-> item.type, options |-> options,
   body |-> Mk("body", "", exprs)]

emitFactory(item, data, includeTypes, matchers, prov) ==
  LET ctx == contextOf(item, data, matchers, prov)
  IN CASE item.type = "alias" ->
            Factory(item, item.hasRecursion,
              <<Mk("arrayElement", "",
                   <<Mk("arrayElement", "",
                        [i \in 1..Len(item.entities) |->
                           Call(refTypeName(item.entities[i]),
                                item.hasRecursion, item.hasRecursion)])>>)>>)
       [] item.type = "union" ->
            IF \A i \in 1..Len(item.values) :
                 item.values[i].type \in {"reference", "intersection"}
            THEN Factory(item, item.hasRecursion,
                   <<Mk("arrayElement", "",
                        [i \in 1..Len(item.values) |->
                           LET val == item.values[i]
                           IN IF val.type = "reference"
                              THEN IF val.recursiveEdge /\ ctx.entityHasRecursion
                                   THEN Call(val.ref, TRUE, TRUE)
                                   ELSE Call(val.ref, FALSE, FALSE)
                              ELSE generateIntersectionValue(
                                     val, chars(item.name), includeTypes, ctx)])>>)
            ELSE Factory(item, FALSE,
                   <<Mk("arrayElement", "",
                        [i \in 1..Len(item.values) |->
                           generateConstantValue(item.values[i],
                             chars(item.name), includeTypes, TRUE)])>>)
       [] item.type = "instance" ->
            Factory(item, ctx.entityHasRecursion,
              [i \in 1..Len(item.inherits) |->
                 inheritCall(item, item.inherits[i], includeTypes, ctx)]
              \o [i \in 1..Len(item.properties) |->
                    instanceProperty(item, item.properties[i], includeTypes, ctx)])
       [] item.type = "placeholder" -> Factory(item, FALSE, <<>>)
       [] item.type = "constant" ->
            Factory(item, FALSE,
              <<generateConstantValue(item.value, chars(item.name),
                                      includeTypes, FALSE)>>)
       [] item.type = "primitive" ->
            Factory(item, FALSE,
              <<generatePrimitive(item.value, <<>>, includeTypes, ctx)>>)
       [] item.type = "array" ->
            Factory(item, item.hasRecursion,
              <<generateArrayValue(item.value, <<>>, includeTypes, ctx)>>)
       [] item.type = "enum" ->
            Factory(item, FALSE,
              <<Mk("arrayElement", "",
                   [i \in 1..Len(item.values) |->
                      Lit(item.name \o "." \o item.values[i].ref)])>>)
       [] OTHER -> Factory(item, FALSE, <<>>)

\* /\bdepth\b|\bmaxDepth\b|__options/.test(text) on the text of a factory
RECURSIVE mentionsDepth(_)
mentionsDepth(x) ==
  \/ x.k = "cond"
  \/ (x.k = "call" /\ x.opts)
  \/ \E i \in 1..Len(x.args) : mentionsDepth(x.args[i])

\* stripUnusedOptionsFromText(finalBody), finalBody being the text of all the
\* factories: the text is returned as it is when it holds depth, maxDepth or
\* __options anywhere, and a signature that declares __options holds __options.
stripUnusedOptionsFromText(factories) ==
  IF \E i \in 1..Len(factories) :
       factories[i].options \/ mentionsDepth(factories[i].body)
  THEN factories
  ELSE [i \in 1..Len(factories) |-> [factories[i] EXCEPT !.options = FALSE]]

\* generate(): the factories of the returned text, or thrown when the call
\* raises.  The items emitted are those of the best kind of their name.
generate(data, includeTypes, matchers, prov) ==
  LET idx == {i \in 1..Len(data) :
                nameToBestKind(data, Len(data), data[i].name) = data[i].type}
      emitted == SelectSeq(
                   [i \in 1..Len(data) |->
                      IF i \in idx
                      THEN [on |-> TRUE,
                            f |-> emitFactory(data[i], data, includeTypes,
                                              matchers, prov)]
                      ELSE [on |-> FALSE, f |-> Factory(data[i], FALSE, <<>>)]],
                   LAMBDA r : r.on)
      factories == [i \in 1..Len(emitted) |-> emitted[i].f]
  IN IF \E i \in 1..Len(factories) : factories[i].body.k = "throw"
     THEN [thrown |-> TRUE, factories |-> <<>>]
     ELSE [thrown |-> FALSE,
           factories |-> stripUnusedOptionsFromText(factories)]

----------------------------------------------------------------------------
(* typemockr.ts, generateMocks: inherited properties *)

\* Map.get(name) after `for (const e of list) map.set(e.name, e)`: the last
\* entity of that name; its index, 0 when the map has no such key.
lastNamed(list, name) ==
  IF \E i \in 1..Len(list) : list[i].name = name
  THEN CHOOSE i \in 1..Len(list) :
         /\ list[i].name = name
         /\ \A j \in (i + 1)..Len(list) : list[j].name # name
  ELSE 0

\* the first entity of the list with that name and that location.file; 0 when
\* there is none
firstAt(list, name, file) ==
  IF \E i \in 1..Len(list) :
       list[i].name = name /\ list[i].file # "" /\ list[i].file = file
  THEN CHOOSE i \in 1..Len(list) :
         /\ list[i].name = name /\ list[i].file # "" /\ list[i].file = file
         /\ \A j \in 1..(i - 1) :
              ~(list[j].name = name /\ list[j].file # "" /\ list[j].file = file)
  ELSE 0

\* resolveBaseEntity(expr, loc): the entity of allEntities at the location,
\* when a location is given; else the entity of fileEntityMap; else the entity
\* of entityByName; <<>> when there is none, <<ent>> otherwise.
resolveBaseEntity(expr, loc, fileEntities, allEntities) ==
  LET baseName == extractTypeNameFromImportish(expr)
  IN IF loc # "" /\ firstAt(allEntities, baseName, loc) # 0
     THEN <<allEntities[firstAt(allEntities, baseName, loc)]>>
     ELSE IF lastNamed(fileEntities, baseName) # 0
     THEN <<fileEntities[lastNamed(fileEntities, baseName)]>>
     ELSE IF lastNamed(allEntities, baseName) # 0
     THEN <<allEntities[lastNamed(allEntities, baseName)]>>
     ELSE <<>>

\* The state of one collectPropsTransitive call: seen, out, and the activation
\* records of walk (the entity walked and the index of its next base).
WalkInit == [seen |-> {}, out |-> <<>>, stack |-> <<>>]

\* for (const p of ent.properties) if (!out.some(op => op.name === p.name)) out.push(p)
RECURSIVE pushProps(_, _)
pushProps(out, props) ==
  IF props = <<>> THEN out
  ELSE pushProps(IF \E i \in 1..Len(out) : out[i].name = Head(props).name
                 THEN out ELSE Append(out, Head(props)),
                 Tail(props))

\* walk(expr, loc) without the test of the seen set
walkEnterUnseen(w, expr, loc, fileEntities, allEntities) ==
  LET baseName == extractTypeNameFromImportish(expr)
      ent == resolveBaseEntity(expr, loc, fileEntities, allEntities)
  IN IF expr = "" THEN w
     ELSE IF ent = <<>> THEN [w EXCEPT !.seen = @ \cup {baseName}]
     ELSE [seen |-> w.seen \cup {baseName},
           out |-> pushProps(w.out, ent[1].properties),
           stack |-> Append(w.stack, [ent |-> ent[1], next |-> 1])]

\* The entry of walk(expr, loc), up to its loop over the bases.
walkEnter(w, expr, loc, fileEntities, allEntities) ==
  LET baseName == extractTypeNameFromImportish(expr)
      ent == resolveBaseEntity(expr, loc, fileEntities, allEntities)
  IN IF expr = "" THEN w
     ELSE IF baseName \in w.seen THEN w
     ELSE IF ent = <<>> THEN [w EXCEPT !.seen = @ \cup {baseName}]
     ELSE [seen |-> w.seen \cup {baseName},
           out |-> pushProps(w.out, ent[1].properties),
           stack |-> Append(w.stack, [ent |-> ent[1], next |-> 1])]

\* One step of the innermost activation: walk its next base, or return.
walkStep(w, fileEntities, allEntities) ==
  LET top == w.stack[Len(w.stack)]
  IN IF top.next <= Len(top.ent.inherits)
     THEN walkEnter([w EXCEPT !.stack[Len(w.stack)].next = @ + 1],
                    top.ent.inherits[top.next].expr,
                    top.ent.inherits[top.next].file, fileEntities, allEntities)
     ELSE [w EXCEPT !.stack = SubSeq(@, 1, Len(@) - 1)]

RECURSIVE walkRun(_, _, _)
walkRun(w, fileEntities, allEntities) ==
  IF w.stack = <<>> THEN w
  ELSE walkRun(walkStep(w, fileEntities, allEntities), fileEntities, allEntities)

collectPropsTransitive(startExpr, startLoc, fileEntities, allEntities) ==
  walkRun(walkEnter(WalkInit, startExpr, startLoc, fileEntities, allEntities),
          fileEntities, allEntities).out

\* if (props.length) inh.properties = props
setInherited(e, k, props) ==
  IF props # <<>> THEN [e EXCEPT !.inherits[k].properties = props] ELSE e

\* for (const e of astNodes) for (const inh of e.inherits) ...
populateInherits(astNodes, allEntities) ==
  [i \in 1..Len(astNodes) |->
     IF astNodes[i].type = "instance"
     THEN [astNodes[i] EXCEPT !.inherits =
             [k \in 1..Len(astNodes[i].inherits) |->
                LET props == collectPropsTransitive(
                               astNodes[i].inherits[k].expr,
                               astNodes[i].inherits[k].file,
                               astNodes, allEntities)
                IN IF props # <<>>
                   THEN [astNodes[i].inherits[k] EXCEPT !.properties = props]
                   ELSE astNodes[i].inherits[k]]]
     ELSE astNodes[i]]

\* astNodes.map(e => annotateEntityWithRecursion(e, adj, nodeToScc, reachableFrom))
annotateAll(list, adjacency, components) ==
  [i \in 1..Len(list) |-> annotateEntityWithRecursion(list[i], adjacency, components)]

----------------------------------------------------------------------------
(* The emitted factories at run time *)

\* const { depth = 0, maxDepth = 2 } = __options
DefaultDepth == 0
DefaultMaxDepth == 2

\* The Mock<T> calls written in an expression.  guarded: the call stands in the
\* else branch of a `depth >= maxDepth ?` conditional; ov: it passes overrides.
RECURSIVE Sites(_, _)
Sites(x, guarded) ==
  LET below(g) == UNION {Sites(x.args[i], g) : i \in 1..Len(x.args)}
  IN CASE x.k = "call" ->
            {[target |-> x.text, opts |-> x.opts, edge |-> x.edge,
              guarded |-> guarded, ov |-> x.opts \/ x.args # <<>>]}
              \cup below(guarded)
       [] x.k = "cond" -> below(TRUE)
       [] OTHER -> below(guarded)

\* the index of the factory Mock<name> in the output, 0 when there is none
factoryOf(fs, name) ==
  IF \E i \in 1..Len(fs) : fs[i].name = name
  THEN CHOOSE i \in 1..Len(fs) : fs[i].name = name
  ELSE 0

\* The calls an activation evaluates.  A union factory returns
\* `overrides ?? faker.helpers.arrayElement([...])`: the calls are evaluated
\* only when overrides is nullish.  Every other body builds its object, array
\* or pick eagerly; a guarded call is evaluated while depth < maxDepth.
liveSites(fs, frame) ==
  LET f == fs[factoryOf(fs, frame.fn)]
  IN IF f.type = "union" /\ frame.ov THEN {}
     ELSE {c \in Sites(f.body, FALSE) :
             /\ factoryOf(fs, c.target) # 0
             /\ c.guarded => frame.depth < DefaultMaxDepth}

\* The activation a call creates: a factory that declares __options reads
\* depth from it, any other one has no depth.
calleeFrame(fs, frame, c) ==
  [fn |-> c.target,
   depth |-> IF c.opts /\ fs[factoryOf(fs, c.target)].options
             THEN frame.depth + 1 ELSE DefaultDepth,
   ov |-> c.ov]

----------------------------------------------------------------------------
(* Bounds and input families *)

\* nesting of the value tree of a property
MaxNest == 2
\* the longest chain of nested factory calls that is followed
MaxChain == 8

PropLeaves == {Ref("A"), Ref("B"), Prim("string")}

Wrappers(v) ==
  {Arr(v), Union(<<v, Const("k")>>), Union(<<v, Ref("B")>>), Inter(<<v>>),
   Obj(<<Prop("q", FALSE, v)>>)}

RECURSIVE Values(_)
Values(n) ==
  IF n = 0 THEN PropLeaves
  ELSE PropLeaves \cup UNION {Wrappers(v) : v \in Values(n - 1)}

\* entity A: an interface with one property p, with or without the base B
EntityA(v, withBase) ==
  [Entity("A", "instance") EXCEPT
     !.properties = <<Prop("p", FALSE, v)>>,
     !.inherits = IF withBase THEN <<Base("B")>> ELSE <<>>]

\* entity B: an interface, an alias, a union of references or an array type
EntitiesB ==
  {[Entity("B", "instance") EXCEPT !.properties = <<Prop("q", FALSE, v)>>] :
     v \in {Prim("string"), Ref("A")}}
  \cup {[Entity("B", "alias") EXCEPT !.entities = <<"A">>],
        [Entity("B", "union") EXCEPT !.values = <<Ref("A"), Ref("B")>>],
        [Entity("B", "array") EXCEPT !.value = Arr(Ref("A"))]}

EntityLists ==
  {<<EntityA(v, withBase), b>> :
     v \in Values(MaxNest), withBase \in BOOLEAN, b \in EntitiesB}

----------------------------------------------------------------------------
(* State *)

VARIABLES
  pc,            \* the phase of the run
  entities,      \* allEntities, as parsed
  includeTypes,  \* format === "ts"
  adj,           \* the adjacency map
  sccs,          \* the components computeSCC returned
  annotated,     \* astNodes: annotated, with inherits[].properties
  factories,     \* the factories of the emitted module
  stack,         \* the activations of a run of the emitted module
  walk,          \* the running collectPropsTransitive call
  target,        \* the entity and base the running call collects for
  mappings,      \* the table given to setMappings
  matchers,      \* faker-infer.ts: the matchers inferGenerator closes over
  provider,      \* faker-infer.ts: mappingProviderFunc
  answer         \* the last getFakerGenerator call and what it returned

vars ==
  <<pc, entities, includeTypes, adj, sccs, annotated, factories, stack, walk,
    target, mappings, matchers, provider, answer>>

graphVars == <<entities, includeTypes, adj, sccs, annotated, factories>>
walkVars == <<walk, target>>
inferVars == <<mappings, matchers, provider, answer>>

NoTarget == [e |-> 0, k |-> 0]
NoMappings == [shape |-> "none", entries |-> <<>>]
NoAnswer == [type |-> "", path |-> <<>>, value |-> Undefined]

IdleGraph ==
  /\ adj = EmptyAdj
  /\ sccs = <<>>
  /\ annotated = <<>>
  /\ factories = <<>>
  /\ stack = <<>>

IdleWalk ==
  /\ walk = WalkInit
  /\ target = NoTarget

IdleInfer ==
  /\ mappings = NoMappings
  /\ matchers = defineGeneratorMatchers(<<>>)
  /\ provider = NoProvider
  /\ answer = NoAnswer

----------------------------------------------------------------------------
(* Spec: generateMocks over one source file, then a run of the emitted module *)

Init ==
  /\ pc = "parsed"
  /\ entities \in EntityLists
  /\ includeTypes \in BOOLEAN
  /\ IdleGraph
  /\ IdleWalk
  /\ IdleInfer

\* generateMocks(): adjacency, components, annotation, inherited properties,
\* generate().  setMappings/setMappingProvider run inside generate().
GenerateMocks ==
  /\ pc = "parsed"
  /\ LET a == buildAdjacency(entities)
         c == computeSCC(a)
         nodes == populateInherits(annotateAll(entities, a, c), entities)
         m == setMappings(mappings)
         g == generate(nodes, includeTypes, m, provider)
     IN /\ adj' = a
        /\ sccs' = c
        /\ annotated' = nodes
        /\ matchers' = m
        /\ factories' = g.factories
        /\ pc' = IF g.thrown THEN "failed" ELSE "generated"
  /\ UNCHANGED <<entities, includeTypes, stack, walk, target, mappings,
                 provider, answer>>

\* Mock<name>() called from outside with default options
Invoke(i) ==
  /\ pc = "generated"
  /\ stack = <<>>
  /\ stack' = <<[fn |-> factories[i].name, depth |-> DefaultDepth, ov |-> FALSE]>>
  /\ UNCHANGED <<pc, graphVars, walkVars, inferVars>>

\* the innermost activation evaluates one of its calls
CallNested ==
  /\ pc = "generated"
  /\ stack # <<>>
  /\ Len(stack) < MaxChain
  /\ \E c \in liveSites(factories, stack[Len(stack)]) :
       stack' = Append(stack, calleeFrame(factories, stack[Len(stack)], c))
  /\ UNCHANGED <<pc, graphVars, walkVars, inferVars>>

\* the innermost activation returns
Return ==
  /\ pc = "generated"
  /\ stack # <<>>
  /\ stack' = SubSeq(stack, 1, Len(stack) - 1)
  /\ UNCHANGED <<pc, graphVars, walkVars, inferVars>>

Next ==
  \/ GenerateMocks
  \/ \E i \in 1..Len(factories) : Invoke(i)
  \/ CallNested
  \/ Return

Spec == Init /\ [][Next]_vars

----------------------------------------------------------------------------
(* Properties of Spec *)

\* the nodes nested directly in a value node
Children(node) == Range(node.value)

RECURSIVE ReachesRef(_, _)
ReachesRef(node, name) ==
  \/ node.type = "reference" /\ extractTypeNameFromImportish(node.ref) = name
  \/ \E c \in Children(node) : ReachesRef(c, name)

RECURSIVE PathFlagged(_, _)
PathFlagged(node, name) ==
  ReachesRef(node, name) =>
    /\ node.recursiveEdge
    /\ \A c \in Children(node) : PathFlagged(c, name)

RECURSIVE AnyFlag(_)
AnyFlag(node) == node.recursiveEdge \/ \E c \in Children(node) : AnyFlag(c)

\* the value nodes an entity holds
Roots(e) == Range(e.properties) \cup Range(e.values) \cup {e.value}

\* the names reachable from the names of S along at most k more edges
RECURSIVE Closure(_, _, _)
Closure(a, S, k) ==
  IF k = 0 THEN S
  ELSE Closure(a, S \cup UNION {Range(AdjGet(a, n)) : n \in S}, k - 1)

ReachableIn(a, n) == Closure(a, Range(AdjGet(a, n)), Len(a.keys))

Acyclic(a) == \A n \in Range(a.keys) : n \notin ReachableIn(a, n)

\* the expression emitted for the property of that name in an instance factory
FieldExpr(f, name) ==
  LET i == CHOOSE j \in 1..Len(f.body.args) :
             f.body.args[j].k = "field" /\ f.body.args[j].text = name
  IN f.body.args[i].args[1]

\* the array properties of e whose element is a flagged direct reference to e
SelfArrays(e) ==
  {p \in Range(e.properties) :
     /\ p.type = "array"
     /\ p.value # <<>>
     /\ p.value[1].type = "reference"
     /\ refTypeName(p.value[1].ref) = e.name
     /\ p.value[1].recursiveEdge}

SelfArrayOwners ==
  {i \in 1..Len(annotated) :
     /\ annotated[i].type = "instance"
     /\ annotated[i].hasRecursion
     /\ SelfArrays(annotated[i]) # {}}

\* the calls of expression x that an activation at this depth evaluates
LiveIn(x, depth) == {c \in Sites(x, FALSE) : c.guarded => depth < DefaultMaxDepth}

GuardedText(name, empty) ==
  "depth >= maxDepth ? " \o empty \o " : faker.helpers.multiple(() => Mock"
    \o name \o "({}, { depth: depth + 1, maxDepth }))"

\* C1: a call of any emitted factory with default options terminates: every
\* chain of nested Mock<T> calls is finite.  A finite chain holds an activation
\* of a factory at most once per depth 0..maxDepth, so it is never longer than
\* (number of factories) * (maxDepth + 1).
C1_ChainsAreFinite == Len(stack) <= Len(factories) * (DefaultMaxDepth + 1)

\* C2: in the output of generate(), every factory call emitted for a node
\* flagged recursiveEdge inside an entity with hasRecursion stands under a
\* `depth >= maxDepth` guard.
C2_EveryEdgeCallGuarded ==
  pc = "generated" =>
    \A i \in 1..Len(factories) :
      \A c \in Sites(factories[i].body, FALSE) : c.edge => c.guarded

\* C3 as stated: for an entity with hasRecursion and an array property whose
\* element is a flagged direct reference to the entity, the emitted expression
\* is `depth >= maxDepth ? [] : faker.helpers.multiple(() => Mock<E>({}, {
\* depth: depth + 1, maxDepth }))`.
C3_UntypedTextAlways ==
  pc = "generated" =>
    \A i \in SelfArrayOwners : \A p \in SelfArrays(annotated[i]) :
      Render(FieldExpr(factories[factoryOf(factories, annotated[i].name)], p.name))
        = GuardedText(annotated[i].name, "[]")

\* C3 amended: the emitted expression is the guarded one, its empty branch
\* being `[]` without type annotations and `([] as E[])` with them; an
\* activation of the factory at depth = maxDepth evaluates no factory call of
\* that field.
C3_GuardedSelfArray ==
  pc = "generated" =>
    \A i \in SelfArrayOwners : \A p \in SelfArrays(annotated[i]) :
      LET e == annotated[i]
          x == FieldExpr(factories[factoryOf(factories, e.name)], p.name)
      IN /\ Render(x) = GuardedText(e.name,
                          IF includeTypes THEN "([] as " \o e.name \o "[])"
                          ELSE "[]")
         /\ \A k \in 1..Len(stack) :
              stack[k].fn = e.name /\ stack[k].depth >= DefaultMaxDepth
                => LiveIn(x, stack[k].depth) = {}

\* the factory of a self-array owner runs at depth = maxDepth, with types on
C3_Witness ==
  /\ pc = "generated"
  /\ includeTypes
  /\ \E i \in SelfArrayOwners : \E k \in 1..Len(stack) :
       stack[k].fn = annotated[i].name /\ stack[k].depth = DefaultMaxDepth

\* C4: for an entity E with a field of type E at any nesting,
\* annotateEntityWithRecursion sets hasRecursion on E and recursiveEdge on
\* every node of the path from the property down to the reference to E: the
\* property, every intermediate composite node and the reference.
C4_WholePathFlagged ==
  pc = "generated" =>
    \A i \in 1..Len(annotated) :
      annotated[i].type = "instance" =>
        \A p \in Range(annotated[i].properties) :
          ReachesRef(p, annotated[i].name) =>
            annotated[i].hasRecursion /\ PathFlagged(p, annotated[i].name)

\* C5: when the adjacency graph has no cycle and no self-edge, no entity gets
\* hasRecursion and no property or nested value node gets recursiveEdge.
C5_AcyclicNoFlags ==
  pc = "generated" /\ Acyclic(adj) =>
    \A i \in 1..Len(annotated) :
      /\ ~annotated[i].hasRecursion
      /\ annotated[i].cycleGroup = {}
      /\ \A r \in Roots(annotated[i]) : ~AnyFlag(r)

\* an acyclic graph with a reference nested two levels deep in a property
C5_Witness ==
  /\ pc = "generated"
  /\ Acyclic(adj)
  /\ \E v \in Values(0) : \E w \in Wrappers(v) : \E u \in Wrappers(w) :
       /\ v.type = "reference"
       /\ entities[1].properties[1] = Prop("p", FALSE, u)

\* C18: a factory of an entity with hasRecursion whose body uses neither
\* depth nor maxDepth declares no __options parameter in the final output.
C18_UnusedOptionsStripped ==
  pc = "generated" =>
    \A i \in 1..Len(factories), j \in 1..Len(annotated) :
      annotated[j].name = factories[i].name /\ annotated[j].hasRecursion
        /\ ~mentionsDepth(factories[i].body)
      => ~factories[i].options

\* the names on a cycle with a name, and the name itself
SccOf(a, n) == {n} \cup {m \in ReachableIn(a, n) : n \in ReachableIn(a, m)}

\* C21: an annotated entity has hasRecursion iff its component has more than
\* one member or the adjacency map holds its self-edge (an isolated self-loop
\* included); its cycleGroup is then its component, and is absent otherwise.
C21_HasRecursionIffGroup ==
  \A j \in 1..Len(annotated) :
    LET e == annotated[j]
        rec == \/ Cardinality(SccOf(adj, e.name)) > 1
               \/ e.name \in Range(AdjGet(adj, e.name))
    IN /\ e.hasRecursion <=> rec
       /\ e.cycleGroup = IF rec THEN SccOf(adj, e.name) ELSE {}

\* A is an isolated self-loop and B is in no cycle
C21_Witness ==
  /\ annotated # <<>>
  /\ "A" \in Range(AdjGet(adj, "A"))
  /\ SccOf(adj, "A") = {"A"}
  /\ annotated[1].hasRecursion
  /\ annotated[1].cycleGroup = {"A"}
  /\ ~annotated[2].hasRecursion

----------------------------------------------------------------------------
(* SpecSCC: buildAdjacency and computeSCC over lists of interfaces *)

\* references per interface
MaxRefs == 2

GraphNames == {"A", "B", "C"}

\* the sequences without repetition over S, of length at most n
RECURSIVE Arrangements(_, _)
Arrangements(S, n) ==
  IF n = 0 THEN {<<>>}
  ELSE Arrangements(S, n - 1)
         \cup {Append(q, x) : q \in {r \in Arrangements(S, n - 1) : Len(r) = n - 1},
                              x \in S}

Injective(q) == \A i, j \in 1..Len(q) : q[i] = q[j] => i = j

\* an interface whose properties r1, r2, ... are references to the given names
RefEntity(name, refs) ==
  [Entity(name, "instance") EXCEPT
     !.properties = [i \in 1..Len(refs) |-> Prop("r", FALSE, Ref(refs[i]))]]

RefLists(n) == {q \in Arrangements(GraphNames, n) : Injective(q)}

GraphLists ==
  {[i \in 1..Len(names) |-> RefEntity(names[i], refs[i])] :
     names \in RefLists(Cardinality(GraphNames)) \ {<<>>},
     refs \in [1..Cardinality(GraphNames) -> RefLists(MaxRefs)]}

InitSCC ==
  /\ pc = "parsed"
  /\ entities \in GraphLists
  /\ includeTypes = TRUE
  /\ IdleGraph
  /\ IdleWalk
  /\ IdleInfer

BuildAdjacency ==
  /\ pc = "parsed"
  /\ adj' = buildAdjacency(entities)
  /\ pc' = "adjacency"
  /\ UNCHANGED <<entities, includeTypes, sccs, annotated, factories, stack,
                 walkVars, inferVars>>

ComputeSCC ==
  /\ pc = "adjacency"
  /\ sccs' = computeSCC(adj)
  /\ pc' = "components"
  /\ UNCHANGED <<entities, includeTypes, adj, annotated, factories, stack,
                 walkVars, inferVars>>

NextSCC == BuildAdjacency \/ ComputeSCC

SpecSCC == InitSCC /\ [][NextSCC]_vars

ComponentOf(n) == {i \in 1..Len(sccs) : n \in Range(sccs[i])}

ComponentsDisjoint ==
  /\ \A i \in 1..Len(sccs) : Injective(sccs[i])
  /\ \A i, j \in 1..Len(sccs) : i # j => Range(sccs[i]) \cap Range(sccs[j]) = {}

ComponentNames == UNION {Range(sccs[i]) : i \in 1..Len(sccs)}

MutuallyReachable(a, b) ==
  a = b \/ (b \in ReachableIn(adj, a) /\ a \in ReachableIn(adj, b))

SameComponentIffMutual ==
  \A a, b \in ComponentNames :
    (ComponentOf(a) \cap ComponentOf(b) # {}) <=> MutuallyReachable(a, b)

\* C6: the components computeSCC returns are pairwise disjoint, their union is
\* the full entity set (the keys of the adjacency map), and two names share a
\* component iff each is reachable from the other.
C6_ComponentsPartitionKeys ==
  pc = "components" =>
    /\ ComponentsDisjoint
    /\ ComponentNames = Range(adj.keys)
    /\ SameComponentIffMutual

\* C28: every edge target of the map buildAdjacency returns is the name of a
\* declared entity: a reference to an undeclared name adds no edge.
C28_EdgesToDeclaredOnly ==
  pc # "parsed" =>
    \A n \in Range(adj.keys) :
      Range(AdjGet(adj, n)) \subseteq {entities[i].name : i \in 1..Len(entities)}

----------------------------------------------------------------------------
(* SpecInherit: generateMocks up to the inherited properties, the walk of     *)
(* collectPropsTransitive taken one activation step at a time                 *)

\* the deepest nesting of walk activations that is followed
MaxWalk == 6

\* a property named n declared by the interface named owner
Field(n, owner) == Prop(n, FALSE, Const(owner))

Seq1(b, x) == IF b THEN <<x>> ELSE <<>>

\* The interfaces A, B, C, D.  A declares x and y; B, C and D declare x or
\* nothing; the base lists are drawn from D: B, C; B: A; C: A; A: A, B.
InheritLists ==
  {<<[Entity("A", "instance") EXCEPT
        !.properties = <<Field("x", "A"), Field("y", "A")>>,
        !.inherits = Seq1(aA, Base("A")) \o Seq1(aB, Base("B"))],
     [Entity("B", "instance") EXCEPT
        !.properties = Seq1(bx, Field("x", "B")),
        !.inherits = Seq1(bA, Base("A"))],
     [Entity("C", "instance") EXCEPT
        !.properties = Seq1(cx, Field("x", "C")),
        !.inherits = Seq1(cA, Base("A"))],
     [Entity("D", "instance") EXCEPT
        !.properties = Seq1(dx, Field("x", "D")),
        !.inherits = Seq1(dB, Base("B")) \o Seq1(dC, Base("C"))]>> :
     aA \in BOOLEAN, aB \in BOOLEAN, bA \in BOOLEAN, cA \in BOOLEAN,
     dB \in BOOLEAN, dC \in BOOLEAN, bx \in BOOLEAN, cx \in BOOLEAN,
     dx \in BOOLEAN}

\* for (const e of astNodes) for (const inh of e.inherits): the pairs in order
Targets(list) ==
  Flatten([i \in 1..Len(list) |->
             IF list[i].type = "instance"
             THEN [k \in 1..Len(list[i].inherits) |-> [e |-> i, k |-> k]]
             ELSE <<>>])

TargetIndex(list, t) ==
  IF t = NoTarget THEN 0
  ELSE CHOOSE i \in 1..Len(Targets(list)) : Targets(list)[i] = t

\* generateMocks has built the adjacency map and the components and has
\* annotated the entities of the file; the bases are handled next
InitInherit ==
  /\ pc = "annotated"
  /\ entities \in InheritLists
  /\ includeTypes = TRUE
  /\ adj = buildAdjacency(entities)
  /\ sccs = computeSCC(adj)
  /\ annotated = annotateAll(entities, adj, sccs)
  /\ factories = <<>>
  /\ stack = <<>>
  /\ IdleWalk
  /\ IdleInfer

\* collectPropsTransitive(expr, loc) is called for the next base
StartCollect ==
  /\ pc = "annotated"
  /\ TargetIndex(annotated, target) < Len(Targets(annotated))
  /\ LET t == Targets(annotated)[TargetIndex(annotated, target) + 1]
     IN /\ target' = t
        /\ walk' = walkEnter(WalkInit, annotated[t.e].inherits[t.k].expr,
                             annotated[t.e].inherits[t.k].file,
                             annotated, entities)
  /\ pc' = "walking"
  /\ UNCHANGED <<graphVars, stack, inferVars>>

WalkStep ==
  /\ pc = "walking"
  /\ walk.stack # <<>>
  /\ Len(walk.stack) <= MaxWalk
  /\ walk' = walkStep(walk, annotated, entities)
  /\ UNCHANGED <<pc, graphVars, stack, target, inferVars>>

\* the call returns: if (props.length) inh.properties = props
FinishCollect ==
  /\ pc = "walking"
  /\ walk.stack = <<>>
  /\ annotated' = [annotated EXCEPT
                     ![target.e] = setInherited(@, target.k, walk.out)]
  /\ pc' = "annotated"
  /\ UNCHANGED <<entities, includeTypes, adj, sccs, factories, stack, walkVars,
                 inferVars>>

\* every base of every entity of the file has been handled
Populated ==
  /\ pc = "annotated"
  /\ TargetIndex(annotated, target) = Len(Targets(annotated))
  /\ pc' = "populated"
  /\ UNCHANGED <<graphVars, stack, walkVars, inferVars>>

NextInherit ==
  \/ StartCollect
  \/ WalkStep
  \/ FinishCollect
  \/ Populated

\* generateMocks is one synchronous call: it runs until it returns
SpecInherit == InitInherit /\ [][NextInherit]_vars /\ WF_vars(NextInherit)

EntityNamed(list, name) == list[lastNamed(list, name)]

BaseNames(e) ==
  [k \in 1..Len(e.inherits) |-> extractTypeNameFromImportish(e.inherits[k].expr)]

\* D extends B and C, B and C extend A, A extends nothing
Diamond(list) ==
  /\ BaseNames(EntityNamed(list, "D")) = <<"B", "C">>
  /\ BaseNames(EntityNamed(list, "B")) = <<"A">>
  /\ BaseNames(EntityNamed(list, "C")) = <<"A">>
  /\ BaseNames(EntityNamed(list, "A")) = <<>>

\* the inherited properties aggregated for e, over all its bases
Aggregated(e) == Flatten([k \in 1..Len(e.inherits) |-> e.inherits[k].properties])

Occurrences(q, name) == Cardinality({i \in 1..Len(q) : q[i].name = name})

\* C7: diamond inheritance: the inherited property list aggregated for D holds
\* each field of A exactly once, and a field of D, B or C with the name of a
\* field of A takes precedence over A's.
C7_DiamondOnce ==
  pc = "populated" /\ Diamond(entities) =>
    LET d == EntityNamed(annotated, "D")
        a == EntityNamed(annotated, "A")
        shadowed(n) == \E o \in {"B", "C", "D"} :
                         \E p \in Range(EntityNamed(annotated, o).properties) :
                           p.name = n
    IN \A f \in Range(a.properties) :
         /\ Occurrences(Aggregated(d), f.name) = 1
         /\ shadowed(f.name) => f \notin Range(Aggregated(d))

\* some base of some interface leads back to a name already walked
CyclicBases(list) ==
  \/ "A" \in Range(BaseNames(EntityNamed(list, "A")))
  \/ /\ "B" \in Range(BaseNames(EntityNamed(list, "A")))
     /\ "A" \in Range(BaseNames(EntityNamed(list, "B")))

DeclaredFields(list, names) ==
  UNION {Range(EntityNamed(list, n).properties) :
           n \in {m \in names : lastNamed(list, m) # 0}}

\* C8: collectPropsTransitive terminates for every base graph, cyclic ones
\* included, without an error, and what it returns is a finite list of the
\* properties collected from the bases walked before the cycle closed: every
\* call that starts returns, the walk never nests deeper than there are
\* interfaces, and the list holds properties of walked bases only, one per name.
C8_WalkTerminates ==
  /\ <>(pc = "populated")
  /\ [](pc = "walking" =>
          /\ Len(walk.stack) <= Len(entities)
          /\ Range(walk.out) \subseteq DeclaredFields(annotated, walk.seen)
          /\ \A i, j \in 1..Len(walk.out) :
               walk.out[i].name = walk.out[j].name => i = j)

\* the walks over a cyclic base graph have all returned, with properties
C8_Witness ==
  /\ pc = "populated"
  /\ CyclicBases(entities)
  /\ EntityNamed(annotated, "A").inherits[1].properties # <<>>

----------------------------------------------------------------------------
(* SpecInfer: the inference engine of faker-infer.ts *)

\* entries of a table
MaxEntries == 3
\* patterns per expression in a table of the legacy shape
MaxPatterns == 2

Patterns == {<<"*">>, <<"*", ".", "n">>, <<"*", "n", "*">>}

Generators == {"faker.string.uuid()", "faker.person.firstName()"}

Paths == {<<"a", ".", "n">>, <<"a", ".", "n", "x">>, <<"B", ".", "N">>}

Kinds == {"string", "number"}

\* { pattern: expression, ... }
NewTables ==
  {[shape |-> "new",
    entries |-> [i \in 1..Len(ps) |-> [pattern |-> ps[i], generator |-> gs[i]]]] :
     ps \in {q \in Arrangements(Patterns, MaxEntries) : Injective(q) /\ q # <<>>},
     gs \in [1..MaxEntries -> Generators]}

\* { expression: [pattern, ...], ... }
LegacyTables ==
  {[shape |-> "legacy",
    entries |-> [i \in 1..Len(gs) |-> [generator |-> gs[i], patterns |-> pss[i]]]] :
     gs \in {q \in Arrangements(Generators, Cardinality(Generators)) :
               Injective(q) /\ q # <<>>},
     pss \in [1..Cardinality(Generators) ->
                {q \in Arrangements(Patterns, MaxPatterns) :
                   Injective(q) /\ q # <<>>}]}

Tables == {NoMappings} \cup NewTables \cup LegacyTables

Queries == Kinds \X Paths

\* the provider functions: one answer for every call, or an expression for the
\* path a.n and null for the rest
Providers ==
  {[set |-> TRUE, fn |-> [q \in Queries |-> v]] :
     v \in {Undefined, Null, "", "custom()", Throws}}
  \cup {[set |-> TRUE,
         fn |-> [q \in Queries |->
                   IF q[2] = <<"a", ".", "n">> THEN "custom()" ELSE Null]]}

\* the module is loaded; the caller holds the table it will pass
InitInfer ==
  /\ pc = "loaded"
  /\ entities = <<>>
  /\ includeTypes = TRUE
  /\ IdleGraph
  /\ IdleWalk
  /\ mappings \in Tables
  /\ matchers = defineGeneratorMatchers(<<>>)
  /\ provider = NoProvider
  /\ answer = NoAnswer

SetMappings ==
  /\ matchers' = setMappings(mappings)
  /\ pc' = "mapped"
  /\ answer' = NoAnswer
  /\ UNCHANGED <<graphVars, stack, walkVars, mappings, provider>>

\* setMappingProvider(fn); fn may be undefined
SetMappingProvider(fn) ==
  /\ provider' = fn
  /\ answer' = NoAnswer
  /\ UNCHANGED <<pc, graphVars, stack, walkVars, mappings, matchers>>

GetFakerGenerator(type, path) ==
  /\ answer' = [type |-> type, path |-> path,
                value |-> getFakerGenerator(matchers, provider, type, path)]
  /\ UNCHANGED <<pc, graphVars, stack, walkVars, mappings, matchers, provider>>

NextInfer ==
  \/ SetMappings
  \/ \E fn \in Providers \cup {NoProvider} : SetMappingProvider(fn)
  \/ \E q \in Queries : GetFakerGenerator(q[1], q[2])

SpecInfer == InitInfer /\ [][NextInfer]_vars

\* the pairs of a table in the order the table declares its patterns
Declared(m) ==
  IF m.shape = "new" THEN m.entries
  ELSE Flatten([i \in 1..Len(m.entries) |->
                  [j \in 1..Len(m.entries[i].patterns) |->
                     [pattern |-> m.entries[i].patterns[j],
                      generator |-> m.entries[i].generator]]])

Matches(pattern, path) == regexpTest(generateRegexp(pattern), path)

FirstDeclared(m, path) ==
  LET d == Declared(m)
      i == CHOOSE k \in 1..Len(d) :
             /\ Matches(d[k].pattern, path)
             /\ \A j \in 1..(k - 1) : ~Matches(d[j].pattern, path)
  IN d[i].generator

\* C9: when a provider is set and answers (kind, path) with a value that is
\* neither null nor undefined, getFakerGenerator returns that value verbatim,
\* whatever the pattern table answers and without kind-family correction; when
\* it answers null or undefined, the pattern table and the defaults decide.
C9_ProviderAnswerWins ==
  answer # NoAnswer /\ provider.set =>
    LET v == provider.fn[<<answer.type, answer.path>>]
    IN /\ v \notin {Null, Undefined, Throws} => answer.value = v
       /\ v \in {Null, Undefined} =>
            answer.value = staticGenerator(matchers, answer.type, answer.path)

\* a provider answers a number path with an expression while the table would
\* answer the same path with a string-shaped one
C9_Witness ==
  /\ answer # NoAnswer
  /\ provider.set
  /\ answer.type = "number"
  /\ provider.fn[<<answer.type, answer.path>>] = "custom()"
  /\ inferGenerator(matchers, answer.path) = "faker.string.uuid()"
  /\ answer.value = "custom()"

\* C10: after setMappings(table), for either table shape, a path that matches
\* several patterns resolves to the expression of the pattern declared first in
\* the table.
C10_FirstDeclaredWins ==
  /\ pc = "mapped"
  /\ answer # NoAnswer
  /\ ~provider.set
  /\ answer.type = "string"
  /\ \E k \in 1..Len(Declared(mappings)) :
       Matches(Declared(mappings)[k].pattern, answer.path)
  => answer.value = FirstDeclared(mappings, answer.path)

\* C15: when the installed provider raises for (kind, path), getFakerGenerator
\* returns what the pattern table and the defaults give for that call, as if
\* no provider were installed, and the lookup leaves the provider installed.
C15_ProviderFaultIsolated ==
  /\ [](answer # NoAnswer /\ provider.set
          /\ provider.fn[<<answer.type, answer.path>>] = Throws
        => answer.value =
             getFakerGenerator(matchers, NoProvider, answer.type, answer.path))
  /\ [][answer' # NoAnswer => provider' = provider]_vars

\* a raising provider is installed and the string path a.n is answered from
\* the table
C15_Witness ==
  /\ answer # NoAnswer
  /\ provider.set
  /\ provider.fn[<<answer.type, answer.path>>] = Throws
  /\ answer.type = "string"
  /\ answer.value = "faker.string.uuid()"

----------------------------------------------------------------------------
(* SpecConfig: generate() called again and again in one process *)

\* the tables of one entry, and no table
ConfigTables ==
  {NoMappings}
  \cup {t \in NewTables : Len(t.entries) = 1}
  \cup {t \in LegacyTables :
          Len(t.entries) = 1 /\ Len(t.entries[1].patterns) = 1}

\* the mappingProvider argument: absent, a path that fails to load or exports
\* no function, or a path whose module exports the function fn
MappingProviderArgs ==
  {[given |-> g, loads |-> FALSE, fn |-> NoProvider] : g \in BOOLEAN}
  \cup {[given |-> TRUE, loads |-> TRUE, fn |-> f] : f \in Providers}

\* interface a { n: string | number } and interface B { N: string }
ConfigLists ==
  {<<[Entity("a", "instance") EXCEPT
        !.properties = <<Prop("n", FALSE, Prim(k))>>],
     [Entity("B", "instance") EXCEPT
        !.properties = <<Prop("N", FALSE, Prim("string"))>>]>> : k \in Kinds}

InitConfig ==
  /\ pc = "loaded"
  /\ entities \in ConfigLists
  /\ includeTypes \in BOOLEAN
  /\ IdleGraph
  /\ IdleWalk
  /\ IdleInfer

\* generate(..., data, includeTypes, ..., mappings, mappingProvider): the
\* table is installed, the provider is installed when the argument is given
\* and loads a function, and the factories are emitted under that
\* configuration.  pc tells whether this call installed a provider.
Generate(m, mp) ==
  LET ms == setMappings(m)
      prov == IF mp.given /\ mp.loads THEN mp.fn ELSE provider
      g == generate(entities, includeTypes, ms, prov)
  IN /\ mappings' = m
     /\ matchers' = ms
     /\ provider' = prov
     /\ factories' = g.factories
     /\ pc' = IF mp.given /\ mp.loads THEN "provided" ELSE "plain"
     /\ UNCHANGED <<entities, includeTypes, adj, sccs, annotated, stack,
                    walkVars, answer>>

NextConfig == \E m \in ConfigTables, mp \in MappingProviderArgs : Generate(m, mp)

SpecConfig == InitConfig /\ [][NextConfig]_vars

\* C19: after a generate() call with mappings M2 that installs no provider
\* (none given, or one that fails to load), whatever calls came before it,
\* every (kind, path) resolves as in a fresh process configured with M2
\* alone, and so do the factories the call emitted.
C19_NoConfigurationSurvives ==
  pc = "plain" =>
    /\ \A q \in Queries :
         getFakerGenerator(matchers, provider, q[1], q[2]) =
           getFakerGenerator(setMappings(mappings), NoProvider, q[1], q[2])
    /\ factories =
         generate(entities, includeTypes, setMappings(mappings),
                  NoProvider).factories

----------------------------------------------------------------------------
(* SpecMatch: one wildcard pattern, compiled and tried against paths *)

\* characters of a pattern
MaxPatternLen == 2
\* characters of a path
MaxPathLen == 2

PatternChars == {"*", ".", "d", "$"}
PathChars == {"d", "D", ".", "$"}

EmailPattern == <<"*", ".", "e", "m", "a", "i", "l">>
IdPattern == <<"*", ".", "i", "d">>
EmailPath == <<"a", ".", "b", ".", "e", "m", "a", "i", "l">>
IdPath == <<"U", "s", "e", "r", ".", "i", "d">>
IdentifierPath ==
  <<"U", "s", "e", "r", ".", "i", "d", "e", "n", "t", "i", "f", "i", "e", "r">>

MatchPatterns ==
  (Arrangements(PatternChars, MaxPatternLen) \ {<<>>})
    \cup {EmailPattern, IdPattern}

MatchPaths ==
  (Arrangements(PathChars, MaxPathLen) \ {<<>>})
    \cup {EmailPath, IdPath, IdentifierPath}

AllKinds ==
  {"string", "any", "number", "boolean", "null", "date", "unknown", "object",
   "bigint"}

\* { pattern: "uuid-expr" }
MatchTables ==
  {[shape |-> "new",
    entries |-> <<[pattern |-> p, generator |-> "uuid-expr"]>>] :
     p \in MatchPatterns}

\* no provider, or one that answers undefined, or null, whatever the call
MatchProviders ==
  {NoProvider} \cup
  {[set |-> TRUE, fn |-> [q \in AllKinds \X MatchPaths |-> v]] :
     v \in {Undefined, Null}}

InitMatch ==
  /\ pc = "loaded"
  /\ entities = <<>>
  /\ includeTypes = TRUE
  /\ IdleGraph
  /\ IdleWalk
  /\ mappings \in MatchTables
  /\ matchers = defineGeneratorMatchers(<<>>)
  /\ provider = NoProvider
  /\ answer = NoAnswer

\* every path as a string, the two paths on an id under every kind
MatchQueries ==
  ({"string"} \X MatchPaths) \cup (AllKinds \X {IdPath, IdentifierPath})

NextMatch ==
  \/ SetMappings
  \/ \E fn \in MatchProviders : SetMappingProvider(fn)
  \/ \E q \in MatchQueries : GetFakerGenerator(q[1], q[2])

SpecMatch == InitMatch /\ [][NextMatch]_vars

\* the pattern of the one-entry table
ThePattern == mappings.entries[1].pattern

\* whole-path wildcard matching: "*" is any run of characters, every other
\* character is itself, letters compared without case
RECURSIVE GlobMatches(_, _)
GlobMatches(p, s) ==
  IF p = <<>> THEN s = <<>>
  ELSE IF Head(p) = "*"
  THEN \E k \in 0..Len(s) : GlobMatches(Tail(p), SubSeq(s, k + 1, Len(s)))
  ELSE /\ s # <<>>
       /\ Fold(Head(s)) = Fold(Head(p))
       /\ GlobMatches(Tail(p), Tail(s))

\* C11: with the table { pattern: expression } installed, a path resolves to
\* the expression iff the whole path matches the pattern, letter case ignored,
\* "." and every other character but "*" taken literally, "*" matching any
\* run of characters, dots included.
C11_WholePathWildcard ==
  pc = "mapped" /\ answer # NoAnswer =>
    (answer.value = "uuid-expr" <=> GlobMatches(ThePattern, answer.path))

\* the per-kind defaults the specification lists
DefaultOfKind(kind) ==
  CASE kind \in {"string", "any"} -> "faker.lorem.words()"
    [] kind = "number" -> "faker.number.int(10000)"
    [] kind = "boolean" -> "faker.datatype.boolean()"
    [] kind = "null" -> "null"
    [] kind = "date" -> "faker.date.recent()"
    [] kind \in {"unknown", "object"} -> "{}"
    [] OTHER -> "faker.lorem.words()"

\* C12: when the provider gives no answer and the path matches no pattern of
\* the installed table, getFakerGenerator returns the default of the declared
\* kind; a path that matches the pattern returns the table's expression.
C12_DefaultOfDeclaredKind ==
  pc = "mapped" /\ answer # NoAnswer =>
    answer.value =
      IF GlobMatches(ThePattern, answer.path) THEN "uuid-expr"
      ELSE DefaultOfKind(answer.type)

----------------------------------------------------------------------------
(* SpecEmit: generateMocks over entity lists with shared names *)

\* entities of a list
MaxEntities == 3

EntityKinds ==
  {"instance", "enum", "alias", "union", "array", "primitive", "constant",
   "placeholder"}

OtherName(n) == IF n = "A" THEN "B" ELSE "A"

\* an entity of a kind under a name
KindEntity(n, k) ==
  CASE k = "instance" ->
         [Entity(n, k) EXCEPT !.properties = <<Prop("q", FALSE, Prim("string"))>>]
    [] k = "enum" -> [Entity(n, k) EXCEPT !.values = <<Const("k")>>]
    [] k = "alias" -> [Entity(n, k) EXCEPT !.entities = <<OtherName(n)>>]
    [] k = "union" -> [Entity(n, k) EXCEPT !.values = <<Const("k"), Const("j")>>]
    [] k = "array" -> [Entity(n, k) EXCEPT !.value = Arr(Prim("string"))]
    [] k = "primitive" -> [Entity(n, k) EXCEPT !.value = Prim("string")]
    [] k = "constant" -> [Entity(n, k) EXCEPT !.value = Const("k")]
    [] OTHER -> Entity(n, k)

\* up to MaxEntities entities named A, of any kinds, with or without an
\* interface B after them
DupLists ==
  {l \o t :
     l \in Arrangements({KindEntity("A", k) : k \in EntityKinds}, MaxEntities)
            \ {<<>>},
     t \in {<<>>, <<KindEntity("B", "instance")>>}}

\* a property f that is, or holds, a function type, or is of a variant
\* generateValue does not know
FuncProps ==
  {Prop("f", o, Func(Prim("string"))) : o \in BOOLEAN}
  \cup {Prop("f", FALSE, Arr(Func(Prim("string"))))}
  \cup {Prop("f", FALSE, Obj(<<Prop("g", o, Func(Prim("string")))>>)) :
          o \in BOOLEAN}
  \cup {Prop("f", o, Node("tuple", "", <<Prim("string")>>)) : o \in BOOLEAN}

\* interface A { f; q: string } and interface B { q: string }
FuncLists ==
  {<<[Entity("A", "instance") EXCEPT
        !.properties = <<fp, Prop("q", FALSE, Prim("string"))>>],
     KindEntity("B", "instance")>> : fp \in FuncProps}

\* interface A { p; f } with p a reference, direct or in an array, and f a
\* function type over a reference, beside an interface B that refers back to
\* A or does not
RecLists ==
  {<<[Entity("A", "instance") EXCEPT
        !.properties = <<Prop("p", FALSE, v), Prop("f", FALSE, w)>>],
     [Entity("B", "instance") EXCEPT !.properties = <<Prop("q", FALSE, u)>>]>> :
     v \in {Ref("A"), Ref("B"), Arr(Ref("B")), Prim("string")},
     w \in {Func(Ref("A")), Func(Ref("B")), Func(Prim("string")),
            Obj(<<Prop("g", FALSE, Func(Ref("A")))>>), Prim("string")},
     u \in {Ref("A"), Prim("string")}}

EmitLists == DupLists \cup FuncLists \cup RecLists

InitEmit ==
  /\ pc = "parsed"
  /\ entities \in EmitLists
  /\ includeTypes \in BOOLEAN
  /\ IdleGraph
  /\ IdleWalk
  /\ IdleInfer

SpecEmit == InitEmit /\ [][Next]_vars

NamesOf(list) == {list[i].name : i \in 1..Len(list)}

FactoriesNamed(name) == {i \in 1..Len(factories) : factories[i].name = name}

\* C13: after generate(), every name of the entity list has exactly one
\* factory, whatever the number and the kinds of the entities sharing it.
C13_OneFactoryPerName ==
  pc = "generated" =>
    \A name \in NamesOf(entities) : Cardinality(FactoriesNamed(name)) = 1

\* the ranks of the kinds
RankOf(kind) ==
  CASE kind = "instance" -> 7
    [] kind = "enum" -> 6
    [] kind = "alias" -> 5
    [] kind = "union" -> 4
    [] kind \in {"array", "primitive"} -> 3
    [] kind = "constant" -> 2
    [] OTHER -> 1

TopRank(list, name) ==
  CHOOSE r \in 1..7 :
    /\ \E i \in 1..Len(list) : list[i].name = name /\ RankOf(list[i].type) = r
    /\ \A i \in 1..Len(list) : list[i].name = name => RankOf(list[i].type) <= r

\* C14: every name of the list is emitted, and every factory emitted for a
\* name is of a kind of the highest rank among the entities of that name,
\* wherever they stand in the list; no entity of a lower rank is emitted.
C14_HighestRankEmitted ==
  pc = "generated" =>
    /\ \A name \in NamesOf(entities) : FactoriesNamed(name) # {}
    /\ \A i \in 1..Len(factories) :
         RankOf(factories[i].type) = TopRank(entities, factories[i].name)

\* a constant X stands before an instance X, and X's factory is the instance's
C14_Witness ==
  /\ pc = "generated"
  /\ Len(entities) >= 2
  /\ entities[1] = KindEntity("A", "constant")
  /\ entities[2] = KindEntity("A", "instance")
  /\ \A i \in FactoriesNamed("A") : factories[i].type = "instance"
  /\ FactoriesNamed("A") # {}

\* the names of the properties of function type, at the top or in an inline
\* object
RECURSIVE FunctionProps(_)
FunctionProps(ps) ==
  UNION {IF ps[i].type = "function" THEN {ps[i].name}
         ELSE IF ps[i].type = "object" THEN FunctionProps(ps[i].value)
         ELSE {} : i \in 1..Len(ps)}

\* the names of the entries of the object literals of an emitted expression
RECURSIVE EntryNames(_)
EntryNames(x) ==
  (IF x.k = "field" THEN {x.text} ELSE {})
    \cup UNION {EntryNames(x.args[i]) : i \in 1..Len(x.args)}

\* C16: the factory emitted for an instance entity has no entry under the
\* name of a property of function type, required or optional, top-level or
\* inside an inline object.
C16_FunctionPropsOmitted ==
  pc = "generated" =>
    \A i \in 1..Len(factories), j \in 1..Len(entities) :
      factories[i].type = "instance" /\ entities[j].type = "instance"
        /\ entities[j].name = factories[i].name
      => FunctionProps(entities[j].properties)
           \cap EntryNames(factories[i].body) = {}

\* C17: generate() raises for no entity list, and every name of the list has
\* its factory in the output, whatever one property of one entity is.
C17_GenerateNeverThrows ==
  /\ pc # "failed"
  /\ pc = "generated" =>
       \A name \in NamesOf(entities) : FactoriesNamed(name) # {}

\* the nodes of a value tree
RECURSIVE AllNodes(_)
AllNodes(node) == {node} \cup UNION {AllNodes(c) : c \in Children(node)}

\* the recursion group of a name: the names on a cycle with it
GroupOf(a, e) ==
  IF e \in ReachableIn(a, e)
  THEN {e} \cup {n \in ReachableIn(a, e) : e \in ReachableIn(a, n)}
  ELSE {}

LeadsBack(a, e, t) ==
  /\ GroupOf(a, e) # {}
  /\ (t \in GroupOf(a, e) \/ ReachableIn(a, t) \cap GroupOf(a, e) # {})

\* C20: in every annotated entity E, a reference node with target T, wherever
\* it is nested, carries recursiveEdge iff E has a recursion group and T is in
\* it or reaches it; and a property carries recursiveEdge iff some reference
\* nested in it does.
C20_FlagIffLeadsBack ==
  \A j \in 1..Len(annotated) :
    \A root \in Roots(annotated[j]) :
      \A n \in AllNodes(root) :
        /\ n.type = "reference" =>
             (n.recursiveEdge <=>
                LeadsBack(adj, annotated[j].name,
                          extractTypeNameFromImportish(n.ref)))
        /\ n.name # "" =>
             (n.recursiveEdge <=>
                \E r \in AllNodes(n) : r.type = "reference" /\ r.recursiveEdge)

\* the names an entity refers to: the targets of the reference nodes of its
\* value tree, at any nesting, its bases and, for an alias, its members
RefTargets(e) ==
  {extractTypeNameFromImportish(n.ref) :
     n \in {m \in UNION {AllNodes(root) : root \in Roots(e)} :
              m.type = "reference" /\ m.ref # "__type"}}
  \cup {extractTypeNameFromImportish(e.inherits[i].expr) :
          i \in 1..Len(e.inherits)}
  \cup {extractTypeNameFromImportish(e.entities[i]) : i \in 1..Len(e.entities)}

\* C22: the keys of the adjacency map are exactly the entity names, and the
\* edge set of A holds B iff an entity named A refers to B in its value tree,
\* at any nesting and under any variant that carries nested values, or in its
\* base list.
C22_EdgesAreReferences ==
  adj # EmptyAdj =>
    /\ Range(adj.keys) = NamesOf(entities)
    /\ \A a \in NamesOf(entities) :
         Range(AdjGet(adj, a)) =
           UNION {RefTargets(entities[j]) :
                    j \in {i \in 1..Len(entities) : entities[i].name = a}}

\* ---------------------------------------------------------------------------
\* The bases of the entities of one file, among the entities of several files
\* (generateMocks, the loop over the source files).
\* ---------------------------------------------------------------------------

Files == {"f1", "f2", "f3"}

At(e, f) == [e EXCEPT !.file = f]

\* the entities of the list whose location is the file
InFile(list, f) ==
  LET here(e) == e.file = f
  IN SelectSeq(list, here)

\* Two declarations of A, in f1 and in f2, each present or not, and E, in any
\* file, with the base A, whose location is absent or names any file.
ResolveLists ==
  {Seq1(a1, At([Entity("A", "instance") EXCEPT
                  !.properties = <<Field("x", "A1")>>], "f1"))
   \o Seq1(a2, At([Entity("A", "instance") EXCEPT
                     !.properties = <<Field("x", "A2")>>], "f2"))
   \o <<At([Entity("E", "instance") EXCEPT
              !.inherits = <<[Base("A") EXCEPT !.file = loc]>>], fE)>> :
     a1 \in BOOLEAN, a2 \in BOOLEAN, fE \in Files, loc \in Files \cup {""}}

\* One file: E extends D; D extends B and C; B extends A; A declares x and y,
\* and B, C and D may declare x.
ChainLists ==
  {<<At([Entity("A", "instance") EXCEPT
           !.properties = <<Field("x", "A"), Field("y", "A")>>], "f1"),
     At([Entity("B", "instance") EXCEPT
           !.properties = Seq1(bx, Field("x", "B")),
           !.inherits = Seq1(bA, Base("A"))], "f1"),
     At([Entity("C", "instance") EXCEPT
           !.properties = Seq1(cx, Field("x", "C"))], "f1"),
     At([Entity("D", "instance") EXCEPT
           !.properties = Seq1(dx, Field("x", "D")),
           !.inherits = Seq1(dB, Base("B")) \o Seq1(dC, Base("C"))], "f1"),
     At([Entity("E", "instance") EXCEPT
           !.inherits = <<Base("D")>>], "f1")>> :
     bx \in BOOLEAN, cx \in BOOLEAN, dx \in BOOLEAN, bA \in BOOLEAN,
     dB \in BOOLEAN, dC \in BOOLEAN}

BaseLists == ResolveLists \cup ChainLists

\* generateMocks has parsed the entities of all the files, has built the
\* adjacency map and the components, and has annotated the entities of the
\* file it is processing; a file without entities is skipped
InitBases ==
  /\ pc = "annotated"
  /\ entities \in BaseLists
  /\ includeTypes = TRUE
  /\ adj = buildAdjacency(entities)
  /\ sccs = computeSCC(adj)
  /\ \E cur \in Files :
       /\ InFile(entities, cur) # <<>>
       /\ annotated = annotateAll(InFile(entities, cur), adj, sccs)
  /\ factories = <<>>
  /\ stack = <<>>
  /\ IdleWalk
  /\ IdleInfer

SpecBases == InitBases /\ [][NextInherit]_vars

firstNamed(list, name) ==
  IF \E i \in 1..Len(list) : list[i].name = name
  THEN CHOOSE i \in 1..Len(list) :
         /\ list[i].name = name
         /\ \A j \in 1..(i - 1) : list[j].name # name
  ELSE 0

\* the order of resolution as stated: the entity at the location, else the
\* entity of the file, else the first entity of the global list
StatedBase(expr, loc, fileEntities, allEntities) ==
  LET baseName == extractTypeNameFromImportish(expr)
  IN IF loc # "" /\ firstAt(allEntities, baseName, loc) # 0
     THEN <<allEntities[firstAt(allEntities, baseName, loc)]>>
     ELSE IF lastNamed(fileEntities, baseName) # 0
     THEN <<fileEntities[lastNamed(fileEntities, baseName)]>>
     ELSE IF firstNamed(allEntities, baseName) # 0
     THEN <<allEntities[firstNamed(allEntities, baseName)]>>
     ELSE <<>>

\* C23: resolveBaseEntity(expr, loc) resolves a base to the entity of that
\* name at the location, else to the entity of that name of the file being
\* processed, else to the first entity of that name of the global list, and
\* to nothing only when no entity has the name: once the bases of the file
\* are populated, a base whose entity has no bases of its own carries the
\* properties of exactly that entity.
C23_ResolutionOrder ==
  pc = "populated" =>
    \A t \in Range(Targets(annotated)) :
      LET inh == annotated[t.e].inherits[t.k]
          ent == StatedBase(inh.expr, inh.file, annotated, entities)
      IN /\ ent = <<>> <=>
              extractTypeNameFromImportish(inh.expr) \notin NamesOf(entities)
         /\ ent # <<>> /\ ent[1].inherits = <<>> =>
              inh.properties = ent[1].properties

\* the inheritance hops from the base named from to the base named to, over
\* the bases of the list; MaxWalk + 1 when to is not reached
RECURSIVE HopsFrom(_, _, _, _)
HopsFrom(list, frontier, to, d) ==
  IF to \in frontier THEN d
  ELSE IF d >= MaxWalk \/ frontier = {} THEN MaxWalk + 1
  ELSE HopsFrom(list,
                UNION {Range(BaseNames(EntityNamed(list, n))) :
                         n \in {m \in frontier : lastNamed(list, m) # 0}},
                to, d + 1)

Hops(list, from, to) == HopsFrom(list, {from}, to, 0)

\* C24: the names of the properties collected for a base are pairwise
\* distinct, and of the bases of the walked chain that declare a property of
\* one name, the one whose property is kept is nearest to the start.
C24_NearestBaseWins ==
  pc = "populated" /\ entities \in ChainLists =>
    \A t \in Range(Targets(annotated)) :
      LET inh == annotated[t.e].inherits[t.k]
          start == extractTypeNameFromImportish(inh.expr)
      IN /\ \A i, j \in 1..Len(inh.properties) :
              inh.properties[i].name = inh.properties[j].name => i = j
         /\ \A i \in 1..Len(inh.properties) :
              \A b \in NamesOf(entities) :
                /\ Hops(entities, start, b) <= MaxWalk
                /\ \E q \in Range(EntityNamed(entities, b).properties) :
                     q.name = inh.properties[i].name
                => Hops(entities, start, inh.properties[i].ref)
                     <= Hops(entities, start, b)

\* ---------------------------------------------------------------------------
\* generate() called for one source file of several (generateMocks, the body
\* of the loop over the source files).
\* ---------------------------------------------------------------------------

SourceFiles == {"f1", "f2"}

FileValues(t) == {Ref(t), Arr(Ref(t)), Union(<<Ref(t), Ref("A")>>),
                  Obj(<<Prop("r", FALSE, Ref(t))>>)}

\* interface A { p } in one file and interface B { q } in one file: p refers
\* to B, q to A, to B or to nothing
FileLists ==
  {<<At([Entity("A", "instance") EXCEPT
           !.properties = <<Prop("p", FALSE, v)>>], fa),
     At([Entity("B", "instance") EXCEPT
           !.properties = <<Prop("q", FALSE, w)>>], fb)>> :
     fa \in SourceFiles, fb \in SourceFiles, v \in FileValues("B"),
     w \in FileValues("A") \cup {Ref("B"), Prim("string")}}

InitFiles ==
  /\ pc = "parsed"
  /\ entities \in FileLists
  /\ includeTypes \in BOOLEAN
  /\ IdleGraph
  /\ IdleWalk
  /\ IdleInfer

\* The adjacency map and the components are built from the entities of all
\* the files; the entities of the file cur are annotated, their bases are
\* populated and generate() is called with them.  A file without entities is
\* skipped.
GenerateFile(cur) ==
  /\ pc = "parsed"
  /\ InFile(entities, cur) # <<>>
  /\ LET a == buildAdjacency(entities)
         c == computeSCC(a)
         nodes == populateInherits(annotateAll(InFile(entities, cur), a, c),
                                   entities)
         m == setMappings(mappings)
         g == generate(nodes, includeTypes, m, provider)
     IN /\ adj' = a
        /\ sccs' = c
        /\ annotated' = nodes
        /\ matchers' = m
        /\ factories' = g.factories
        /\ pc' = IF g.thrown THEN "failed" ELSE "generated"
  /\ UNCHANGED <<entities, includeTypes, stack, walk, target, mappings,
                 provider, answer>>

NextFiles == \E cur \in SourceFiles : GenerateFile(cur)

SpecFiles == InitFiles /\ [][NextFiles]_vars

\* C25: in the output of generate() for one file, a call written for a
\* reference flagged recursiveEdge in an owner with hasRecursion passes
\* { depth: depth + 1, maxDepth } exactly when its target is a recursive
\* entity or the owner itself, whether or not the target is an entity of the
\* file.
C25_OptionsIffRecursiveTarget ==
  pc = "generated" =>
    \A i \in 1..Len(factories) :
      \A c \in Sites(factories[i].body, FALSE) :
        c.edge =>
          (c.opts <=> (inRecursionOf(c.target, adj, sccs)
                         \/ c.target = factories[i].name))

\* ---------------------------------------------------------------------------
\* Unions: the value of a property and the union entity.
\* ---------------------------------------------------------------------------

MaxMembers == 2

UnionMembers ==
  {Ref("A"), Ref("U"), Const("a"), ConstNum("1"), Prim("string"),
   Inter(<<Ref("A")>>)}

MemberLists == UNION {[1..n -> UnionMembers] : n \in 1..MaxMembers}

\* type U = <members>; interface A { p: <members> }
UnionLists ==
  {<<[Entity("U", "union") EXCEPT !.values = vs],
     [Entity("A", "instance") EXCEPT
        !.properties = <<Prop("p", FALSE, Union(ws))>>]>> :
     vs \in MemberLists, ws \in MemberLists}

InitUnion ==
  /\ pc = "parsed"
  /\ entities \in UnionLists
  /\ includeTypes \in BOOLEAN
  /\ IdleGraph
  /\ IdleWalk
  /\ IdleInfer

NextUnion == GenerateMocks

SpecUnion == InitUnion /\ [][NextUnion]_vars

\* the expression x is what is stated for a union of the members vs: a pick
\* among factory calls and merged objects when all are references or
\* intersections; a pick among literals, or the one literal, when all are
\* string literals; else a pick among the members, each synthesized by
\* generateValue
StatedUnion(vs, path, ctx, x) ==
  LET n == Len(vs)
  IN IF \A i \in 1..n : vs[i].type \in {"reference", "intersection"}
     THEN /\ x.k = "arrayElement"
          /\ Len(x.args) = n
          /\ \A i \in 1..n :
               IF vs[i].type = "reference"
               THEN x.args[i].k = "call"
                      /\ x.args[i].text = refTypeName(vs[i].ref)
               ELSE x.args[i].k = "merge"
     ELSE IF \A i \in 1..n : vs[i].type = "constant" /\ vs[i].ctype = "string"
     THEN \/ n = 1 /\ x.k = "lit"
          \/ /\ x.k = "arrayElement"
             /\ Len(x.args) = n
             /\ \A i \in 1..n : x.args[i].k = "lit"
     ELSE /\ x.k = "arrayElement"
          /\ Len(x.args) = n
          /\ \A i \in 1..n :
               x.args[i] = generateValue(vs[i], path, includeTypes, ctx)

\* C26: a union, as the value of a property and as a union entity, is emitted
\* as a pick among factory calls when every member is a reference or an
\* intersection, as a pick among the literals (or the one literal) when every
\* member is a string literal, and otherwise as a pick among the members, each
\* synthesized by the rule of its own variant.
C26_UnionByMembers ==
  pc = "generated" =>
    \A j \in 1..Len(annotated) :
      LET item == annotated[j]
          ctx == contextOf(item, annotated, matchers, provider)
      IN /\ item.type = "union" =>
              \E i \in 1..Len(factories) :
                /\ factories[i].name = item.name
                /\ StatedUnion(item.values, chars(item.name), ctx,
                               factories[i].body.args[1])
         /\ item.type = "instance" =>
              \A k \in 1..Len(item.properties) :
                item.properties[k].type = "union" =>
                  StatedUnion(item.properties[k].value,
                              dotted(chars(item.name), item.properties[k].name),
                              ctx,
                              generateUnionValue(item.properties[k],
                                dotted(chars(item.name), item.properties[k].name),
                                includeTypes, ctx))

\* ---------------------------------------------------------------------------
\* The kind family of the expression matched by the table.
\* ---------------------------------------------------------------------------

KindGenerators ==
  StringShapedExprs
  \cup {"faker.person.firstName()", "faker.number.int(10)", "faker.date.past()"}

\* { pattern: expression }
KindTables ==
  {[shape |-> "new", entries |-> <<[pattern |-> p, generator |-> g]>>] :
     p \in Patterns, g \in KindGenerators}

KindQueries == AllKinds \X Paths

\* no provider, or one that answers undefined whatever the call
KindProviders ==
  {NoProvider, [set |-> TRUE, fn |-> [q \in KindQueries |-> Undefined]]}

InitKinds ==
  /\ pc = "loaded"
  /\ entities = <<>>
  /\ includeTypes = TRUE
  /\ IdleGraph
  /\ IdleWalk
  /\ mappings \in KindTables
  /\ matchers = defineGeneratorMatchers(<<>>)
  /\ provider = NoProvider
  /\ answer = NoAnswer

NextKinds ==
  \/ SetMappings
  \/ \E fn \in KindProviders : SetMappingProvider(fn)
  \/ \E q \in KindQueries : GetFakerGenerator(q[1], q[2])

SpecKinds == InitKinds /\ [][NextKinds]_vars

C29_OptionsOnlyToDeclaring ==
  pc = "generated" =>
    \A i \in 1..Len(factories) :
      \A c \in Sites(factories[i].body, FALSE) :
        c.opts /\ factoryOf(factories, c.target) # 0 =>
          factories[factoryOf(factories, c.target)].options

\* ---------------------------------------------------------------------------
\* annotateEntityWithRecursion called on parsed entities, and again on what it
\* returned.
\* ---------------------------------------------------------------------------

AnnotateLists == EntityLists \cup RecLists

InitAnnotate ==
  /\ pc = "parsed"
  /\ entities \in AnnotateLists
  /\ includeTypes = TRUE
  /\ IdleGraph
  /\ IdleWalk
  /\ IdleInfer

\* astNodes.map(e => annotateEntityWithRecursion(e, adj, nodeToScc,
\* reachableFrom)) over the parsed entities, with the graph built from them
Annotate ==
  /\ pc = "parsed"
  /\ LET a == buildAdjacency(entities)
         c == computeSCC(a)
     IN /\ adj' = a
        /\ sccs' = c
        /\ annotated' = annotateAll(entities, a, c)
        /\ entities' = [j \in 1..Len(entities) |->
                          entityAfterAnnotate(entities[j], a, c)]
  /\ pc' = "annotated"
  /\ UNCHANGED <<includeTypes, factories, stack, walkVars, inferVars>>

\* the same call on the entities it returned, with the same graph
Reannotate ==
  /\ pc = "annotated"
  /\ annotated' = annotateAll(annotated, adj, sccs)
  /\ pc' = "reannotated"
  /\ UNCHANGED <<entities, includeTypes, adj, sccs, factories, stack, walkVars,
                 inferVars>>

NextAnnotate ==
  \/ Annotate
  \/ Reannotate

SpecAnnotate == InitAnnotate /\ [][NextAnnotate]_vars

\* the entity, its properties and its nested value nodes carry no flag
Unflagged(e) ==
  /\ ~e.hasRecursion
  /\ e.cycleGroup = {}
  /\ \A root \in Roots(e) : \A n \in AllNodes(root) : ~n.recursiveEdge

====
